---------------------------- MODULE Spec2Model ----------------------------
(***************************************************************************)
(* Model of the railway-monitoring repository: the stream gateway's token  *)
(* admission (auth/stream.token.js), the per-camera worker supervisor      *)
(* (streams/rtsp.manager.js), the viewer connections                       *)
(* (webrtc/webrtc.session.js) and the signaling hub's session store.       *)
(*                                                                         *)
(* Time is counted in ticks of 1/TicksPerSec second.  Date values are the  *)
(* tick at which they were taken; NoTime stands for null.                  *)
(***************************************************************************)
EXTENDS Integers, Sequences, FiniteSets, Bags, TLC

\* ------------------------------------------------------------- bounds ---
TicksPerSec == 2
MaxTime == 5
MaxIssued == 2
MaxStoreTime == 4
MaxBatch == 2

\* ------------------------------------------- configuration of the code ---
\* STREAM_TOKEN_TTL (seconds), here configured to 1.
STREAM_TOKEN_TTL == 1
\* SESSION_TIMEOUT_MS (5 minutes in the code), here 2 ticks.
SESSION_TIMEOUT_MS == 2

NoTime == -1
Cameras == {"CCTV_01", "CCTV_02"}

Kiosks == {"KIOSK_01", "KIOSK_02"}
\* Inputs of the store's functions: "" stands for a missing (falsy) argument.
KioskInputs == Kiosks \cup {""}
\* (monitorId, monitorSocketId) pairs a caller passes to createSession.
Owners == {<<"MONITOR_01", "sockM1">>, <<"MONITOR_02", "sockM2">>,
           <<"MONITOR_01", "sockM3">>,
           <<"", "sockM1">>, <<"MONITOR_01", "">>}
SocketInputs == {"sockM1", "sockM2", "sockM3", ""}
CallStates == {"idle", "connecting", "connected", "ended"}
\* (kioskId, callState, initiatedBy) triples a caller passes to updateCallState.
CallStateInputs ==
  (Kiosks \X CallStates \X {"", "monitor", "kiosk"})
    \cup {<<"", "connected", "monitor">>, <<"KIOSK_01", "", "monitor">>}

VARIABLES
  now,          \* the wall clock, in ticks
  issued,       \* stream tokens minted by the control plane
  usedTokens,   \* gateway replay set: token -> purge deadline
  validation,   \* the last call of validateStreamToken and what it returned
  admissions,   \* history: how often each token value was returned valid
  checked,      \* history: the tokens POST /validate-token reported valid
  sessions,     \* hub session store: Map<kioskId, sessionData>
  call,         \* the last store call or hub command and its outcome
  conns,        \* authenticated hub connections
  kiosks,       \* hub presence: kioskId -> connection handle
  monitors,     \* hub presence: monitorId -> connection handle
  cameraRegistry, \* gateway: Map<cameraId, cameraConfig>
  activeStreams,  \* gateway: Map<cameraId, StreamInfo>, as object references
  streams,        \* the StreamInfo objects that the table or a callback holds
  streamHealth,   \* gateway: Map<cameraId, healthInfo>
  viewers,        \* viewer WebSockets whose 'close' has not been handled yet
  autoStarts,     \* history: workers started by restart timers in a row, per camera
  connection,     \* history: the last viewer connection and its outcome
  log,            \* gateway: the last 'Starting stream' line of startStream
  hlsStreams,     \* HLS manager: Map<cameraId, hlsInfo>, as object references
  hlsInfos,       \* the hlsInfo objects that the table or a callback holds
  cameras,        \* control plane registry: Map<cameraId, cameraData>
  request,        \* the last POST /stream-token request and its response
  GATEWAY_SECRET  \* control plane: process.env.GATEWAY_SECRET, "" when unset

tokenVars == <<issued, usedTokens, validation, admissions, checked>>
hubVars == <<sessions, call, conns, kiosks, monitors>>
hlsVars == <<hlsStreams, hlsInfos>>
gwVars == <<cameraRegistry, activeStreams, streams, streamHealth, viewers,
            autoStarts, connection, log, hlsVars>>
controlVars == <<cameras, request, GATEWAY_SECRET>>
vars == <<now, tokenVars, hubVars, gwVars, controlVars>>

\* ===================================================== stream tokens ====

\* The value presented when the handshake carries no token.
NoToken ==
  [cameraId |-> "", issuedAt |-> NoTime, expiresAt |-> NoTime, exp |-> NoTime,
   hasPermissions |-> FALSE, permissions |-> {}, sig |-> ""]

\* jwt.sign(payload, JWT_SECRET, {expiresIn: STREAM_TOKEN_TTL}): iat is the
\* payload's (whole seconds), exp = iat + expiresIn.
generateStreamToken(cameraId, t) ==
  [cameraId |-> cameraId,
   issuedAt |-> t,
   expiresAt |-> t + STREAM_TOKEN_TTL * TicksPerSec,
   exp |-> (t \div TicksPerSec) + STREAM_TOKEN_TTL,
   hasPermissions |-> TRUE,
   permissions |-> {"VIEW"},
   sig |-> "good"]

\* The same payload under a signature the shared key does not verify.
Forged(token) == [token EXCEPT !.sig = "bad"]

\* The permissions claims a payload can carry: none, or a list.
PermissionClaims ==
  {[hasPermissions |-> FALSE, permissions |-> {}],
   [hasPermissions |-> TRUE, permissions |-> {"CONTROL"}],
   [hasPermissions |-> TRUE, permissions |-> {"VIEW"}]}

\* The payload of `token` with the permissions claim `claim`, signed with the
\* shared key.
Signed(token, claim) ==
  [token EXCEPT !.hasPermissions = claim.hasPermissions,
                !.permissions = claim.permissions]

\* decoded.permissions || ['VIEW']
permissionsOrDefault(token) ==
  IF token.hasPermissions THEN token.permissions ELSE {"VIEW"}

\* jwt.verify: the signature first, then the exp claim against the clock in
\* whole seconds.  Returns the name of the error thrown, or "" for none.
jwtVerify(token, t) ==
  IF token.sig # "good" THEN "JsonWebTokenError"
  ELSE IF token.exp # NoTime /\ (t \div TicksPerSec) >= token.exp
       THEN "TokenExpiredError"
       ELSE ""

Rejected(error) ==
  [valid |-> FALSE, error |-> error, cameraId |-> "", expiresAt |-> NoTime,
   permissions |-> {}]

\* What validateStreamToken returns for `token` at time t with replay set used.
validateStreamTokenResult(token, used, t) ==
  IF token = NoToken THEN Rejected("Token required")
  ELSE IF token \in DOMAIN used THEN Rejected("Token already used")
  ELSE IF jwtVerify(token, t) = "JsonWebTokenError"
       THEN Rejected("Invalid token signature")
  ELSE IF jwtVerify(token, t) = "TokenExpiredError"
       THEN Rejected("Token expired")
  ELSE IF token.cameraId = "" THEN Rejected("Token missing cameraId")
  ELSE IF token.expiresAt = NoTime THEN Rejected("Token missing expiresAt")
  ELSE IF token.expiresAt < t
       THEN [valid |-> FALSE, error |-> "Token expired",
             cameraId |-> token.cameraId, expiresAt |-> token.expiresAt,
             permissions |-> {}]
  ELSE [valid |-> TRUE, error |-> "", cameraId |-> token.cameraId,
        expiresAt |-> token.expiresAt,
        permissions |-> permissionsOrDefault(token)]

MarkUsed(token, used) ==
  [x \in DOMAIN used \cup {token} |->
     IF x = token THEN token.expiresAt ELSE used[x]]

\* Faulty variant: a validation that succeeds does not record the token.
validateStreamTokenUsed_NoMark(token, used, t) == used

\* Faulty variant: every validation records the token, whatever it returns.
validateStreamTokenUsed_MarkAlways(token, used, t) == MarkUsed(token, used)

\* The replay set after validateStreamToken(token): usedTokens.set on success.
validateStreamTokenUsed(token, used, t) ==
  IF validateStreamTokenResult(token, used, t).valid
  THEN MarkUsed(token, used)
  ELSE used

hasPermission(validationResult, permission) ==
  validationResult.valid /\ permission \in validationResult.permissions

\* verifyClient of the viewer endpoint, given what validateStreamToken
\* returned for the token: the reason of the refusal, "" when authorized.
verifyClient(token, result) ==
  IF token = NoToken THEN "Token required"
  ELSE IF ~result.valid
       THEN (IF result.error # "" THEN result.error ELSE "Invalid token")
  ELSE IF ~hasPermission(result, "VIEW") THEN "No VIEW permission"
  ELSE ""

\* Faulty variant: the cleanup empties the replay set.
SweepUsedTokens_All(used, t) == [x \in {} |-> 0]

\* The 5-minute cleanup: entries whose deadline is in the past are deleted.
SweepUsedTokens(used, t) ==
  [x \in {y \in DOMAIN used : ~(used[y] < t)} |-> used[x]]

\* ================================================ hub session store ====

NewSession(kioskId, monitorId, monitorSocketId, t) ==
  [kioskId |-> kioskId,
   monitorId |-> monitorId,
   monitorSocketId |-> monitorSocketId,
   startedAt |-> t,
   lastActivityAt |-> t,
   status |-> "active",
   callState |-> "idle",
   callInitiatedBy |-> "",
   callStartedAt |-> NoTime,
   mediaState |-> [kiosk |-> [videoEnabled |-> FALSE, audioEnabled |-> FALSE],
                   monitor |-> [videoEnabled |-> FALSE, audioEnabled |-> FALSE]]]

MapSet(S, k, v) == [x \in DOMAIN S \cup {k} |-> IF x = k THEN v ELSE S[x]]
MapDelete(S, k) == [x \in DOMAIN S \ {k} |-> S[x]]

\* Faulty variant: the check for an existing session is missing.
createSessionThrows_NoExistsCheck(S, kioskId, monitorId, monitorSocketId) ==
  IF kioskId = "" \/ monitorId = "" \/ monitorSocketId = ""
  THEN "kioskId, monitorId, and monitorSocketId are required"
  ELSE ""

\* The message of the Error createSession throws, "" when it does not throw.
createSessionThrows(S, kioskId, monitorId, monitorSocketId) ==
  IF kioskId = "" \/ monitorId = "" \/ monitorSocketId = ""
  THEN "kioskId, monitorId, and monitorSocketId are required"
  ELSE IF kioskId \in DOMAIN S THEN "Session already exists for kiosk"
  ELSE ""

createSession(S, kioskId, monitorId, monitorSocketId, t) ==
  IF createSessionThrows(S, kioskId, monitorId, monitorSocketId) # ""
  THEN S
  ELSE MapSet(S, kioskId, NewSession(kioskId, monitorId, monitorSocketId, t))

\* The set of sessions endSession returns (empty for null), each marked ended.
endSessionReturn(S, kioskId) ==
  IF kioskId = "" \/ kioskId \notin DOMAIN S THEN {}
  ELSE {[S[kioskId] EXCEPT !.status = "ended"]}

endSession(S, kioskId) ==
  IF kioskId = "" \/ kioskId \notin DOMAIN S THEN S
  ELSE MapDelete(S, kioskId)

\* Faulty variant: the loop stops at the first session of the handle.
kioskIdsToEnd_FirstOnly(S, monitorSocketId) ==
  LET owned == {k \in DOMAIN S : S[k].monitorSocketId = monitorSocketId}
  IN IF monitorSocketId = "" \/ owned = {} THEN {}
     ELSE {CHOOSE k \in owned : TRUE}

kioskIdsToEnd(S, monitorSocketId) ==
  IF monitorSocketId = "" THEN {}
  ELSE {k \in DOMAIN S : S[k].monitorSocketId = monitorSocketId}

endSessionByMonitorSocketReturn(S, monitorSocketId) ==
  UNION {endSessionReturn(S, k) : k \in kioskIdsToEnd(S, monitorSocketId)}

\* Faulty variant: the sessions of the handle are marked ended and kept.
endSessionByMonitorSocket_MarkOnly(S, monitorSocketId) ==
  [x \in DOMAIN S |->
     IF S[x].monitorSocketId = monitorSocketId
     THEN [S[x] EXCEPT !.status = "ended"]
     ELSE S[x]]

endSessionByMonitorSocket(S, monitorSocketId) ==
  [x \in DOMAIN S \ kioskIdsToEnd(S, monitorSocketId) |-> S[x]]

endSessionByKiosk(S, kioskId) == endSession(S, kioskId)

hasActiveSession(S, kioskId) ==
  /\ kioskId # ""
  /\ kioskId \in DOMAIN S
  /\ S[kioskId].status = "active"

\* Faulty variant: any handle owns an active session.
validateSessionOwnership_AnyHandle(S, kioskId, monitorSocketId) ==
  IF kioskId = "" \/ monitorSocketId = "" THEN FALSE
  ELSE IF kioskId \notin DOMAIN S THEN FALSE
  ELSE S[kioskId].status = "active"

validateSessionOwnership(S, kioskId, monitorSocketId) ==
  IF kioskId = "" \/ monitorSocketId = "" THEN FALSE
  ELSE IF kioskId \notin DOMAIN S THEN FALSE
  ELSE IF S[kioskId].status # "active" THEN FALSE
  ELSE S[kioskId].monitorSocketId = monitorSocketId

updateSessionActivity(S, kioskId, t) ==
  IF kioskId = "" \/ kioskId \notin DOMAIN S THEN S
  ELSE [S EXCEPT ![kioskId].lastActivityAt = t]

updateCallStateReturn(S, kioskId, callState) ==
  /\ kioskId # ""
  /\ callState # ""
  /\ kioskId \in DOMAIN S

\* Faulty variant: the call fields are cleared on 'ended' only, not on 'idle'.
updateCallStateSession_NoClearOnIdle(session, callState, initiatedBy, t) ==
  LET s1 == [session EXCEPT !.callState = callState]
      s2 == IF initiatedBy # "" THEN [s1 EXCEPT !.callInitiatedBy = initiatedBy]
            ELSE s1
      s3 == IF callState = "connected" /\ s2.callStartedAt = NoTime
            THEN [s2 EXCEPT !.callStartedAt = t]
            ELSE s2
      s4 == IF callState = "ended"
            THEN [s3 EXCEPT !.callStartedAt = NoTime, !.callInitiatedBy = ""]
            ELSE s3
  IN s4

\* Faulty variant: callState is assigned only when initiatedBy is given.
updateCallStateSession_StateOnlyWithInitiator(session, callState, initiatedBy, t) ==
  LET s1 == IF initiatedBy # "" THEN [session EXCEPT !.callState = callState]
            ELSE session
      s2 == IF initiatedBy # "" THEN [s1 EXCEPT !.callInitiatedBy = initiatedBy]
            ELSE s1
      s3 == IF callState = "connected" /\ s2.callStartedAt = NoTime
            THEN [s2 EXCEPT !.callStartedAt = t]
            ELSE s2
      s4 == IF callState = "ended" \/ callState = "idle"
            THEN [s3 EXCEPT !.callStartedAt = NoTime, !.callInitiatedBy = ""]
            ELSE s3
  IN s4

\* The four assignments of updateCallState, in the order of the code.
updateCallStateSession(session, callState, initiatedBy, t) ==
  LET s1 == [session EXCEPT !.callState = callState]
      s2 == IF initiatedBy # "" THEN [s1 EXCEPT !.callInitiatedBy = initiatedBy]
            ELSE s1
      s3 == IF callState = "connected" /\ s2.callStartedAt = NoTime
            THEN [s2 EXCEPT !.callStartedAt = t]
            ELSE s2
      s4 == IF callState = "ended" \/ callState = "idle"
            THEN [s3 EXCEPT !.callStartedAt = NoTime, !.callInitiatedBy = ""]
            ELSE s3
  IN s4

updateCallState(S, kioskId, callState, initiatedBy, t) ==
  IF ~updateCallStateReturn(S, kioskId, callState) THEN S
  ELSE [S EXCEPT ![kioskId] =
          updateCallStateSession(S[kioskId], callState, initiatedBy, t)]

\* Faulty variant: a carried field inverts the stored value instead of
\* replacing it.
updateMediaStateSide_Flip(side, mediaState) ==
  [videoEnabled |-> IF "videoEnabled" \in DOMAIN mediaState
                    THEN ~side.videoEnabled ELSE side.videoEnabled,
   audioEnabled |-> IF "audioEnabled" \in DOMAIN mediaState
                    THEN ~side.audioEnabled ELSE side.audioEnabled]

\* mediaState is the argument object: a function from the fields it carries
\* to their values; a field it does not carry is undefined.
updateMediaStateSide(side, mediaState) ==
  [videoEnabled |-> IF "videoEnabled" \in DOMAIN mediaState
                    THEN mediaState["videoEnabled"] ELSE side.videoEnabled,
   audioEnabled |-> IF "audioEnabled" \in DOMAIN mediaState
                    THEN mediaState["audioEnabled"] ELSE side.audioEnabled]

updateMediaState(S, kioskId, role, mediaState) ==
  IF kioskId = "" \/ role = "" \/ kioskId \notin DOMAIN S THEN S
  ELSE IF role = "kiosk"
       THEN [S EXCEPT ![kioskId].mediaState.kiosk =
               updateMediaStateSide(S[kioskId].mediaState.kiosk, mediaState)]
  ELSE IF role = "monitor"
       THEN [S EXCEPT ![kioskId].mediaState.monitor =
               updateMediaStateSide(S[kioskId].mediaState.monitor, mediaState)]
  ELSE S

\* Faulty variant: a session idle for exactly the timeout is reported too.
getTimedOutSessions_AtTimeout(S, timeoutMs, t) ==
  {S[k] : k \in {x \in DOMAIN S :
                   /\ S[x].status = "active"
                   /\ t - S[x].lastActivityAt >= timeoutMs}}

\* The sessions the loop pushes: the result is an array of copies of the
\* session objects (each carries its kioskId), here the set of its elements.
getTimedOutSessions(S, timeoutMs, t) ==
  {S[k] : k \in {x \in DOMAIN S :
                   /\ S[x].status = "active"
                   /\ t - S[x].lastActivityAt > timeoutMs}}

EmptyMap == [x \in {} |-> NoTime]

NoValidation ==
  [token |-> NoToken, result |-> Rejected(""), at |-> 0, seenValid |-> FALSE,
   inReplaySet |-> FALSE, via |-> ""]

TokenInit ==
  /\ issued = {}
  /\ usedTokens = EmptyMap
  /\ validation = NoValidation
  /\ admissions = EmptyMap
  /\ checked = {}

\* POST /api/cctv/stream-token by a monitor.
MintToken(c) ==
  /\ Cardinality(issued) < MaxIssued
  /\ issued' = issued \cup {generateStreamToken(c, now)}
  /\ UNCHANGED <<now, usedTokens, validation, admissions, checked, hubVars, gwVars,
                 controlVars>>

Presentable == issued \cup {Forged(x) : x \in issued} \cup {NoToken}

\* The tokens a holder of the shared key can present: the payloads of the
\* minted tokens under every permissions claim.
PresentableSigned ==
  {Signed(x, claim) : x \in issued, claim \in PermissionClaims}

\* A call of validateStreamToken by verifyClient of the viewer endpoint.
ValidateStreamToken(token) ==
  LET r == validateStreamTokenResult(token, usedTokens, now) IN
  /\ usedTokens' = validateStreamTokenUsed(token, usedTokens, now)
  /\ validation' = [token |-> token, result |-> r, at |-> now,
                    seenValid |-> (token \in DOMAIN admissions),
                    inReplaySet |-> (token \in DOMAIN usedTokens),
                    via |-> "webrtc"]
  /\ admissions' =
       IF r.valid
       THEN [x \in DOMAIN admissions \cup {token} |->
               IF x = token
               THEN (IF token \in DOMAIN admissions
                     THEN admissions[token] + 1 ELSE 1)
               ELSE admissions[x]]
       ELSE admissions
  /\ UNCHANGED <<now, issued, checked, hubVars, gwVars, controlVars>>

\* The history of valid results after validateStreamToken(token) returned r.
Counted(token, r) ==
  IF r.valid
  THEN [x \in DOMAIN admissions \cup {token} |->
          IF x = token
          THEN (IF token \in DOMAIN admissions THEN admissions[token] + 1 ELSE 1)
          ELSE admissions[x]]
  ELSE admissions

\* Faulty variant: the endpoint reports on the token without recording it.
PostValidateToken_Peek(token) ==
  LET r == validateStreamTokenResult(token, usedTokens, now) IN
  /\ validation' = [token |-> token, result |-> r, at |-> now,
                    seenValid |-> (token \in DOMAIN admissions),
                    inReplaySet |-> (token \in DOMAIN usedTokens),
                    via |-> "validate-token"]
  /\ admissions' = admissions
  /\ checked' = IF r.valid THEN checked \cup {token} ELSE checked
  /\ UNCHANGED <<now, issued, usedTokens, hubVars, gwVars, controlVars>>

\* POST /validate-token: 400 'Token required' without a token, else the
\* fields of what validateStreamToken(token) returns.
PostValidateToken(token) ==
  LET r == IF token = NoToken THEN Rejected("Token required")
           ELSE validateStreamTokenResult(token, usedTokens, now)
  IN /\ usedTokens' = IF token = NoToken THEN usedTokens
                      ELSE validateStreamTokenUsed(token, usedTokens, now)
     /\ validation' = [token |-> token, result |-> r, at |-> now,
                       seenValid |-> (token \in DOMAIN admissions),
                       inReplaySet |-> (token \in DOMAIN usedTokens),
                       via |-> "validate-token"]
     /\ admissions' = Counted(token, r)
     /\ checked' = IF r.valid THEN checked \cup {token} ELSE checked
     /\ UNCHANGED <<now, issued, hubVars, gwVars, controlVars>>

SweepTick ==
  /\ usedTokens' = SweepUsedTokens(usedTokens, now)
  /\ UNCHANGED <<now, issued, validation, admissions, checked, hubVars, gwVars,
                 controlVars>>

Tick ==
  /\ now < MaxTime
  /\ now' = now + 1

TokenTick == Tick /\ UNCHANGED <<tokenVars, hubVars, gwVars, controlVars>>

TokenNext ==
  \/ \E c \in Cameras : MintToken(c)
  \/ \E token \in Presentable : ValidateStreamToken(token)
  \/ SweepTick
  \/ TokenTick

\* The token endpoint beside the viewer endpoint, with the minted tokens.
EndpointNext ==
  \/ \E c \in Cameras : MintToken(c)
  \/ \E token \in issued \cup {NoToken} : PostValidateToken(token)
  \/ \E token \in issued : ValidateStreamToken(token)
  \/ SweepTick
  \/ TokenTick

\* Well-signed payloads that lack a required field.
Incomplete ==
  {[x EXCEPT !.cameraId = ""] : x \in issued}
    \cup {[x EXCEPT !.expiresAt = NoTime] : x \in issued}

\* Validations of every kind of token, over time.
ValidationNext ==
  \/ \E c \in Cameras : MintToken(c)
  \/ \E token \in Presentable \cup Incomplete : ValidateStreamToken(token)
  \/ SweepTick
  \/ TokenTick

\* The handshakes of the viewer endpoint at one instant.
AdmissionNext ==
  \/ \E c \in Cameras : MintToken(c)
  \/ \E token \in Presentable \cup PresentableSigned :
       ValidateStreamToken(token)


\* ------------------------------------------------ store calls (SpecStore) ---

Called(op, kioskId, from, result) ==
  [op |-> op, kioskId |-> kioskId, from |-> from, result |-> result,
   emits |-> << >>]

NoCall == Called("", "", "", "")

NoPresence == [x \in {} |-> ""]

HubInit ==
  /\ sessions = [x \in {} |-> NewSession("", "", "", 0)]
  /\ call = NoCall
  /\ conns = {}
  /\ kiosks = NoPresence
  /\ monitors = NoPresence

presenceVars == <<conns, kiosks, monitors>>

CreateSession(kioskId, monitorId, monitorSocketId) ==
  /\ sessions' = createSession(sessions, kioskId, monitorId, monitorSocketId, now)
  /\ call' = Called("createSession", kioskId, monitorSocketId,
                     IF createSessionThrows(sessions, kioskId, monitorId,
                                            monitorSocketId) = ""
                     THEN "created" ELSE "throw")
  /\ UNCHANGED <<now, tokenVars, gwVars, controlVars, presenceVars>>

EndSession(kioskId) ==
  /\ sessions' = endSession(sessions, kioskId)
  /\ call' = Called("endSession", kioskId, "",
                     IF endSessionReturn(sessions, kioskId) = {}
                     THEN "null" ELSE "ended")
  /\ UNCHANGED <<now, tokenVars, gwVars, controlVars, presenceVars>>

EndSessionByMonitorSocket(monitorSocketId) ==
  /\ sessions' = endSessionByMonitorSocket(sessions, monitorSocketId)
  /\ call' = Called("endSessionByMonitorSocket", "", monitorSocketId,
                     IF endSessionByMonitorSocketReturn(sessions,
                                                        monitorSocketId) = {}
                     THEN "none" ELSE "ended")
  /\ UNCHANGED <<now, tokenVars, gwVars, controlVars, presenceVars>>

EndSessionByKiosk(kioskId) ==
  /\ sessions' = endSessionByKiosk(sessions, kioskId)
  /\ call' = Called("endSessionByKiosk", kioskId, "",
                     IF endSessionReturn(sessions, kioskId) = {}
                     THEN "null" ELSE "ended")
  /\ UNCHANGED <<now, tokenVars, gwVars, controlVars, presenceVars>>

UpdateSessionActivity(kioskId) ==
  /\ sessions' = updateSessionActivity(sessions, kioskId, now)
  /\ call' = Called("updateSessionActivity", kioskId, "",
                     IF kioskId # "" /\ kioskId \in DOMAIN sessions
                     THEN "true" ELSE "false")
  /\ UNCHANGED <<now, tokenVars, gwVars, controlVars, presenceVars>>

UpdateCallState(kioskId, callState, initiatedBy) ==
  /\ sessions' = updateCallState(sessions, kioskId, callState, initiatedBy, now)
  /\ call' = Called("updateCallState", kioskId, "",
                     IF updateCallStateReturn(sessions, kioskId, callState)
                     THEN "true" ELSE "false")
  /\ UNCHANGED <<now, tokenVars, gwVars, controlVars, presenceVars>>

StoreNext ==
  \/ \E k \in KioskInputs, o \in Owners : CreateSession(k, o[1], o[2])
  \/ \E k \in KioskInputs : EndSession(k)
  \/ \E s \in SocketInputs : EndSessionByMonitorSocket(s)
  \/ \E k \in KioskInputs : EndSessionByKiosk(k)
  \/ \E k \in KioskInputs : UpdateSessionActivity(k)
  \/ \E i \in CallStateInputs : UpdateCallState(i[1], i[2], i[3])


\* The clock of the store advances (Date.now()).
StoreTick ==
  /\ now < MaxStoreTime
  /\ now' = now + 1
  /\ UNCHANGED <<tokenVars, hubVars, gwVars, controlVars>>

\* The store under a running clock: sessions are created, touched and ended
\* while time passes.
TimeoutNext ==
  \/ \E k \in KioskInputs : CreateSession(k, "MONITOR_01", "sockM1")
  \/ \E k \in KioskInputs : UpdateSessionActivity(k)
  \/ \E k \in KioskInputs : EndSession(k)
  \/ StoreTick

\* ------------------------------------ hub commands (signaling handlers) ---
\* The socket handlers are not among the repository's files under src/;
\* they are modelled from section 4.1 of the specification, on top of the
\* store functions above.

Conn(clientId, role, handle) ==
  [clientId |-> clientId, role |-> role, handle |-> handle]

\* The clients of the hub: one kiosk and two monitors (KIOSK_02 never
\* connects: a command naming it names a kiosk that is not present).
ClientConns ==
  {Conn("KIOSK_01", "KIOSK", "sockK1"),
   Conn("MONITOR_01", "MONITOR", "sockM1"),
   Conn("MONITOR_02", "MONITOR", "sockM2")}

Side(c) == IF c.role = "MONITOR" THEN "monitor" ELSE "kiosk"
Opposite(side) == IF side = "monitor" THEN "kiosk" ELSE "monitor"

CallCommands == {"call-request", "call-accept", "call-reject", "call-end"}
MediaCommands == {"toggle-video", "toggle-audio"}

\* Checks (1)-(3) of section 4.1: the session exists, is active, and the
\* sender is a participant.  Returns the error code, "" when they pass.
ValidateSender(S, c, kioskId) ==
  IF kioskId \notin DOMAIN S THEN "SIGNALING_NO_SESSION"
  ELSE IF ~hasActiveSession(S, kioskId) THEN "SIGNALING_NO_SESSION"
  ELSE IF c.role = "MONITOR" /\ ~validateSessionOwnership(S, kioskId, c.handle)
       THEN "SIGNALING_NOT_OWNER"
  ELSE IF c.role = "KIOSK" /\ c.clientId # kioskId THEN "SIGNALING_NOT_OWNER"
  ELSE ""

\* Check (5): the state-machine guard of the call table.
CallGuard(session, cmd, side) ==
  IF cmd = "call-request"
  THEN (IF session.callState = "idle" THEN "" ELSE "INVALID_CALL_STATE")
  ELSE IF session.callState = "idle" \/ session.callState = "ended"
       THEN "NO_ACTIVE_CALL"
  ELSE IF cmd = "call-end" THEN ""
  ELSE IF session.callState = "connecting"
          /\ session.callInitiatedBy = Opposite(side)
       THEN ""
  ELSE "INVALID_CALL_STATE"

CommandError(S, c, kioskId, cmd) ==
  IF ValidateSender(S, c, kioskId) # "" THEN ValidateSender(S, c, kioskId)
  ELSE IF cmd \in CallCommands THEN CallGuard(S[kioskId], cmd, Side(c))
  ELSE IF S[kioskId].callState # "connected" THEN "NO_ACTIVE_CALL"
  ELSE ""

\* Faulty variant: call-end leaves the call in 'ended'.
CallEffect_EndStaysEnded(S, kioskId, cmd, side, t) ==
  IF cmd = "call-request" THEN updateCallState(S, kioskId, "connecting", side, t)
  ELSE IF cmd = "call-accept" THEN updateCallState(S, kioskId, "connected", "", t)
  ELSE IF cmd = "call-reject" THEN updateCallState(S, kioskId, "idle", "", t)
  ELSE updateCallState(S, kioskId, "ended", "", t)

\* The store after an admitted call command.
CallEffect(S, kioskId, cmd, side, t) ==
  IF cmd = "call-request" THEN updateCallState(S, kioskId, "connecting", side, t)
  ELSE IF cmd = "call-accept" THEN updateCallState(S, kioskId, "connected", "", t)
  ELSE IF cmd = "call-reject" THEN updateCallState(S, kioskId, "idle", "", t)
  ELSE updateCallState(updateCallState(S, kioskId, "ended", "", t),
                       kioskId, "idle", "", t)

MediaEffect(S, kioskId, cmd, side, enabled) ==
  IF cmd = "toggle-video"
  THEN updateMediaState(S, kioskId, side,
                        [f \in {"videoEnabled"} |-> enabled])
  ELSE updateMediaState(S, kioskId, side,
                        [f \in {"audioEnabled"} |-> enabled])

HubConnect(c) ==
  /\ c \notin conns
  /\ conns' = conns \cup {c}
  /\ call' = Called("connect", "", c.handle, "ok")
  /\ UNCHANGED <<now, tokenVars, gwVars, controlVars, sessions, kiosks, monitors>>

RegisterKiosk(c) ==
  /\ c \in conns
  /\ IF c.role = "KIOSK"
     THEN /\ kiosks' = MapSet(kiosks, c.clientId, c.handle)
          /\ call' = Called("register-kiosk", c.clientId, c.handle, "ok")
     ELSE /\ kiosks' = kiosks
          /\ call' = Called("register-kiosk", "", c.handle, "SIGNALING_BAD_ROLE")
  /\ UNCHANGED <<now, tokenVars, gwVars, controlVars, sessions, conns, monitors>>

RegisterMonitor(c) ==
  /\ c \in conns
  /\ IF c.role = "MONITOR"
     THEN /\ monitors' = MapSet(monitors, c.clientId, c.handle)
          /\ call' = Called("register-monitor", "", c.handle, "ok")
     ELSE /\ monitors' = monitors
          /\ call' = Called("register-monitor", "", c.handle, "SIGNALING_BAD_ROLE")
  /\ UNCHANGED <<now, tokenVars, gwVars, controlVars, sessions, conns, kiosks>>

\* Faulty variant: any existing session is a conflict.
StartMonitoringError_AnySession(S, c, kioskId) ==
  IF c.role # "MONITOR" THEN "SIGNALING_BAD_ROLE"
  ELSE IF kioskId \notin DOMAIN kiosks THEN "KIOSK_NOT_FOUND"
  ELSE IF kioskId \in DOMAIN S THEN "SESSION_CONFLICT"
  ELSE ""

StartMonitoringError(S, c, kioskId) ==
  IF c.role # "MONITOR" THEN "SIGNALING_BAD_ROLE"
  ELSE IF kioskId \notin DOMAIN kiosks THEN "KIOSK_NOT_FOUND"
  ELSE IF kioskId \in DOMAIN S /\ S[kioskId].monitorSocketId # c.handle
       THEN "SESSION_CONFLICT"
  ELSE ""

StartMonitoring(c, kioskId) ==
  /\ c \in conns
  /\ LET err == StartMonitoringError(sessions, c, kioskId) IN
     /\ sessions' = IF err = ""
                    THEN createSession(sessions, kioskId, c.clientId, c.handle, now)
                    ELSE sessions
     /\ call' = Called("start-monitoring", kioskId, c.handle,
                       IF err = "" THEN "ok" ELSE err)
  /\ UNCHANGED <<now, tokenVars, gwVars, controlVars, presenceVars>>

StopMonitoring(c, kioskId) ==
  /\ c \in conns
  /\ LET err == IF c.role # "MONITOR" THEN "SIGNALING_BAD_ROLE"
                ELSE ValidateSender(sessions, c, kioskId) IN
     /\ sessions' = IF err = "" THEN endSession(sessions, kioskId) ELSE sessions
     /\ call' = Called("stop-monitoring", kioskId, c.handle,
                       IF err = "" THEN "ok" ELSE err)
  /\ UNCHANGED <<now, tokenVars, gwVars, controlVars, presenceVars>>

CallCommand(c, kioskId, cmd) ==
  /\ c \in conns
  /\ LET err == CommandError(sessions, c, kioskId, cmd) IN
     /\ sessions' = IF err = ""
                    THEN updateSessionActivity(
                           CallEffect(sessions, kioskId, cmd, Side(c), now),
                           kioskId, now)
                    ELSE sessions
     /\ call' = Called(cmd, kioskId, c.handle, IF err = "" THEN "ok" ELSE err)
  /\ UNCHANGED <<now, tokenVars, gwVars, controlVars, presenceVars>>

\* The connection handle of the other participant of the session: the
\* kiosk's registered handle for the monitor, the owning monitor's handle for
\* the kiosk ("" when the kiosk is not registered).
PeerHandle(S, c, kioskId) ==
  IF Side(c) = "monitor"
  THEN (IF kioskId \in DOMAIN kiosks THEN kiosks[kioskId] ELSE "")
  ELSE S[kioskId].monitorSocketId

Emit(to, event, fromId, enabled) ==
  [to |-> to, event |-> event, fromId |-> fromId, enabled |-> enabled]

\* The messages an admitted toggle emits, in order: the confirmation to the
\* sender and the notification to the peer.  The handler does not compare
\* the value with the stored one.
MediaEmits(S, c, kioskId, cmd, enabled) ==
  LET name == IF cmd = "toggle-video" THEN "video" ELSE "audio" IN
  <<Emit(c.handle, name \o "-toggle-confirmed", "", enabled)>>
  \o (IF PeerHandle(S, c, kioskId) = "" THEN << >>
      ELSE <<Emit(PeerHandle(S, c, kioskId), name \o "-toggled",
                  c.clientId, enabled)>>)

MediaCommand(c, kioskId, cmd, enabled) ==
  /\ c \in conns
  /\ LET err == CommandError(sessions, c, kioskId, cmd) IN
     /\ sessions' = IF err = ""
                    THEN updateSessionActivity(
                           MediaEffect(sessions, kioskId, cmd, Side(c), enabled),
                           kioskId, now)
                    ELSE sessions
     /\ call' = [Called(cmd, kioskId, c.handle, IF err = "" THEN "ok" ELSE err)
                  EXCEPT !.emits = IF err = ""
                                   THEN MediaEmits(sessions, c, kioskId, cmd,
                                                   enabled)
                                   ELSE << >>]
  /\ UNCHANGED <<now, tokenVars, gwVars, controlVars, presenceVars>>

\* Disconnect: a monitor's sessions are ended by its handle, a kiosk's
\* session by its id; the presence entry of that handle is removed.
HubDisconnect(c) ==
  /\ c \in conns
  /\ conns' = conns \ {c}
  /\ IF c.role = "MONITOR"
     THEN /\ sessions' = endSessionByMonitorSocket(sessions, c.handle)
          /\ monitors' = IF c.clientId \in DOMAIN monitors
                            /\ monitors[c.clientId] = c.handle
                         THEN MapDelete(monitors, c.clientId) ELSE monitors
          /\ kiosks' = kiosks
     ELSE /\ sessions' = IF c.clientId \in DOMAIN kiosks
                            /\ kiosks[c.clientId] = c.handle
                         THEN endSessionByKiosk(sessions, c.clientId)
                         ELSE sessions
          /\ kiosks' = IF c.clientId \in DOMAIN kiosks
                          /\ kiosks[c.clientId] = c.handle
                       THEN MapDelete(kiosks, c.clientId) ELSE kiosks
          /\ monitors' = monitors
  /\ call' = Called("disconnect", "", c.handle, "ok")
  /\ UNCHANGED <<now, tokenVars, gwVars, controlVars>>

HubNext ==
  \/ \E c \in ClientConns : HubConnect(c)
  \/ \E c \in ClientConns : RegisterKiosk(c)
  \/ \E c \in ClientConns : RegisterMonitor(c)
  \/ \E c \in ClientConns, k \in Kiosks : StartMonitoring(c, k)
  \/ \E c \in ClientConns, k \in Kiosks : StopMonitoring(c, k)
  \/ \E c \in ClientConns, k \in Kiosks, cmd \in CallCommands :
       CallCommand(c, k, cmd)
  \/ \E c \in ClientConns, k \in Kiosks, cmd \in MediaCommands,
        enabled \in BOOLEAN : MediaCommand(c, k, cmd, enabled)
  \/ \E c \in ClientConns : HubDisconnect(c)




\* ===================================================== stream gateway ====
\* rtsp.manager.js and webrtc.session.js.  A StreamInfo is an object that the
\* worker table and the callbacks of its child process refer to; streams
\* maps object identities to their fields.  ffmpegProcess is "null" before the
\* spawn, "alive" while the child runs, "exited" after its 'exit' and
\* "failed" when the spawn failed (Node then emits 'error' on the next tick
\* and no 'exit'); killed is ChildProcess.killed, set by a kill() that
\* delivered its signal, and signal is the last signal delivered ("" if none).  restartTimer and killTimer are the pending
\* setTimeout callbacks of the object; zeroSince records since when its
\* viewerCount is 0 (NoTime while it is not).  viewers is the bag of viewer
\* sockets: ws is "open" or "closing" (its 'close' event is still to come),
\* admitted tells that addViewer counted it, inSessions that activeSessions
\* holds it.

\* Configuration: MAX_VIEWERS_PER_CAMERA=2, STREAM_TIMEOUT_NO_VIEWERS=500 ms.
MAX_VIEWERS_PER_CAMERA == 2
STREAM_TIMEOUT_NO_VIEWERS == 1
\* The literal of 'if (streamInfo.restartCount < 5)'.
MAX_RESTARTS == 5

\* Bounds of the gateway model.
MaxGwTime == 2
MaxStreams == 3
MaxViewers == 3
MaxAutoStarts == 6

StreamIds == 1..MaxStreams
\* Cameras the control plane registers with the gateway.
RegisteredCameras == {"CCTV_01"}

GwState ==
  [activeStreams |-> activeStreams, streams |-> streams,
   streamHealth |-> streamHealth]

Tracked(g, cameraId) == cameraId \in DOMAIN g.activeStreams
getStream(g, cameraId) == g.streams[g.activeStreams[cameraId]]

updateStreamHealth(g, cameraId, status, message) ==
  [g EXCEPT !.streamHealth =
     MapSet(@, cameraId, [status |-> status, message |-> message])]

\* An RTSP URL as new URL() parses it; username and password are "" when
\* the URL carries no credentials.
RtspUrl(protocol, username, password, host, pathname) ==
  [protocol |-> protocol, username |-> username, password |-> password,
   host |-> host, pathname |-> pathname]

NoUrl == RtspUrl("", "", "", "", "")

\* The URLs cameras are registered with: with credentials, with a user name
\* only, and without credentials.
RtspUrls ==
  {RtspUrl("rtsp:", "admin", "secret", "10.0.0.5:554", "/stream1"),
   RtspUrl("rtsp:", "admin", "", "10.0.0.5:554", "/stream1"),
   RtspUrl("rtsp:", "", "", "10.0.0.5:554", "/stream1")}

\* The URL the gateway model registers its camera with where the URL plays
\* no part.
CameraUrl == RtspUrl("rtsp:", "admin", "secret", "10.0.0.5:554", "/stream1")

\* The message of the Error the gateway's registerCamera throws, "" if none.
registerCameraThrows(cameraId, rtspUrl) ==
  IF cameraId = "" \/ rtspUrl = NoUrl
  THEN "cameraId and rtspUrl are required"
  ELSE IF rtspUrl.protocol # "rtsp:" THEN "rtspUrl must start with rtsp://"
  ELSE ""

registerCamera(registry, cameraId, rtspUrl, enabled) ==
  IF registerCameraThrows(cameraId, rtspUrl) # "" THEN registry
  ELSE MapSet(registry, cameraId,
              [cameraId |-> cameraId, rtspUrl |-> rtspUrl,
               location |-> "Unknown", enabled |-> enabled])

\* GET /cameras of the gateway.
listCameras(registry) ==
  {[cameraId |-> registry[c].cameraId, location |-> registry[c].location,
    enabled |-> registry[c].enabled] : c \in DOMAIN registry}

maskRTSPUrl(url) ==
  IF url.username # "" \/ url.password # ""
  THEN RtspUrl(url.protocol, "***", "***", url.host, url.pathname)
  ELSE url

\* The 'Starting stream' line of startStream(cameraId).
StartingStream(registry, cameraId) ==
  [cameraId |-> cameraId, rtspUrl |-> maskRTSPUrl(registry[cameraId].rtspUrl)]

NoLog == [cameraId |-> "", rtspUrl |-> NoUrl]

\* ChildProcess.kill(signal): the signal is delivered to a running child only.
kill(s, signal) ==
  IF s.ffmpegProcess = "alive"
  THEN [s EXCEPT !.killed = TRUE, !.signal = signal]
  ELSE s

stopStream(g, cameraId) ==
  IF ~Tracked(g, cameraId) THEN g
  ELSE LET o == g.activeStreams[cameraId]
           s == g.streams[o]
       IN IF s.status \in {"STOPPING", "STOPPED"} THEN g
          ELSE LET s1 == [s EXCEPT !.status = "STOPPING"]
                   s2 == IF s1.ffmpegProcess # "null"
                         THEN [kill(s1, "SIGTERM") EXCEPT !.killTimer = TRUE]
                         ELSE s1
               IN updateStreamHealth([g EXCEPT !.streams[o] = s2],
                                     cameraId, "OFFLINE", "Stream stopped")

\* The message of the Error startStream rejects with, "" when it does not.
startStreamThrows(registry, cameraId) ==
  IF cameraId \notin DOMAIN registry
  THEN "Camera not found in registry"
  ELSE IF ~registry[cameraId].enabled THEN "Camera is disabled"
  ELSE ""

\* startStream returns the existing StreamInfo without starting anything.
startStreamReturnsExisting(g, cameraId) ==
  /\ Tracked(g, cameraId)
  /\ getStream(g, cameraId).status \in {"RUNNING", "STARTING"}

NewStreamInfo(cameraId, t) ==
  [cameraId |-> cameraId, ffmpegProcess |-> "null", killed |-> FALSE,
   viewerCount |-> 0, lastViewerActivity |-> t, status |-> "STARTING",
   restartCount |-> 0, restartTimer |-> FALSE, killTimer |-> FALSE,
   zeroSince |-> t, signal |-> ""]

\* The identity of the next StreamInfo object.
NewStreamId(g) ==
  CHOOSE o \in StreamIds \ DOMAIN g.streams :
    \A p \in StreamIds \ DOMAIN g.streams : o <= p

\* ffmpegProcess.on('error'): the handler of a failed spawn.
onProcessError(g, o) ==
  updateStreamHealth([g EXCEPT !.streams[o].status = "ERROR"],
                     g.streams[o].cameraId, "ERROR", "spawn ffmpeg ENOENT")

\* startStream for a registered, enabled camera; spawned tells whether the
\* spawn produced a running child.  The 'error' event of a failed spawn
\* is emitted before any other callback runs, and is applied here.
startStream(g, cameraId, t, spawned) ==
  IF startStreamReturnsExisting(g, cameraId) THEN g
  ELSE LET g1 == IF Tracked(g, cameraId)
                      /\ getStream(g, cameraId).status = "ERROR"
                 THEN stopStream(g, cameraId)
                 ELSE g
           o == NewStreamId(g1)
           g2 == [g1 EXCEPT !.activeStreams = MapSet(@, cameraId, o),
                            !.streams = MapSet(@, o, NewStreamInfo(cameraId, t))]
           g3 == [g2 EXCEPT !.streams[o].ffmpegProcess =
                               IF spawned THEN "alive" ELSE "failed",
                            !.streams[o].status = "RUNNING"]
           g4 == updateStreamHealth(g3, cameraId, "ONLINE",
                                    "Stream started successfully")
       IN IF spawned THEN g4 ELSE onProcessError(g4, o)

\* ffmpegProcess.on('exit') of the child of StreamInfo o.
onProcessExit(g, o) ==
  LET s == g.streams[o]
      cameraId == s.cameraId
  IN IF s.status # "STOPPING"
     THEN LET g1 == updateStreamHealth([g EXCEPT !.streams[o].status = "ERROR"],
                                       cameraId, "ERROR", "FFmpeg process exited")
          IN IF s.restartCount < MAX_RESTARTS
             THEN [g1 EXCEPT !.streams[o].restartCount = @ + 1,
                             !.streams[o].restartTimer = TRUE]
             ELSE updateStreamHealth(g1, cameraId, "ERROR",
                                     "Max restart attempts reached")
     ELSE [g EXCEPT !.streams[o].status = "STOPPED",
                    !.activeStreams = MapDelete(@, cameraId)]

\* Faulty variant: addViewer does not check the cap.
addViewerThrows_NoCap(g, cameraId) ==
  IF ~Tracked(g, cameraId) THEN "Stream not found" ELSE ""

\* The message of the Error addViewer throws, "" when it does not throw.
addViewerThrows(g, cameraId) ==
  IF ~Tracked(g, cameraId) THEN "Stream not found"
  ELSE IF getStream(g, cameraId).viewerCount >= MAX_VIEWERS_PER_CAMERA
  THEN "Max viewers reached"
  ELSE ""

addViewer(g, cameraId, t) ==
  IF addViewerThrows(g, cameraId) # "" THEN g
  ELSE [g EXCEPT !.streams[g.activeStreams[cameraId]].viewerCount = @ + 1,
                 !.streams[g.activeStreams[cameraId]].lastViewerActivity = t,
                 !.streams[g.activeStreams[cameraId]].zeroSince = NoTime]

Max(a, b) == IF a >= b THEN a ELSE b

\* The viewerCount removeViewer leaves: Math.max(0, viewerCount - 1).
removeViewerCount(viewerCount) == Max(0, viewerCount - 1)

removeViewer(g, cameraId, t) ==
  IF ~Tracked(g, cameraId) THEN g
  ELSE LET o == g.activeStreams[cameraId]
           s == g.streams[o]
           n == removeViewerCount(s.viewerCount)
           g1 == [g EXCEPT !.streams[o].viewerCount = n,
                           !.streams[o].zeroSince =
                              IF n = 0 /\ s.viewerCount > 0 THEN t ELSE @]
       IN IF n = 0 /\ t - s.lastViewerActivity > STREAM_TIMEOUT_NO_VIEWERS
          THEN stopStream(g1, cameraId)
          ELSE g1

\* removeViewer called n times (closeSessionsForCamera's loop).
RECURSIVE removeViewers(_, _, _, _)
removeViewers(g, cameraId, n, t) ==
  IF n = 0 THEN g
  ELSE removeViewers(removeViewer(g, cameraId, t), cameraId, n - 1, t)

RECURSIVE stopStreams(_, _)
stopStreams(g, cameraIds) ==
  IF cameraIds = {} THEN g
  ELSE LET c == CHOOSE x \in cameraIds : TRUE
       IN stopStreams(stopStream(g, c), cameraIds \ {c})

\* The streams the reaper's loop stops at time t.
reaperStops(g, t) ==
  {c \in DOMAIN g.activeStreams :
     /\ getStream(g, c).viewerCount = 0
     /\ t - getStream(g, c).lastViewerActivity > STREAM_TIMEOUT_NO_VIEWERS}

reaper(g, t) == stopStreams(g, reaperStops(g, t))

\* A StreamInfo nothing can reach any more: it is not in the table, its child
\* does not run and no callback of it can still act.
Unreachable(g, o) ==
  LET s == g.streams[o] IN
  /\ ~(Tracked(g, s.cameraId) /\ g.activeStreams[s.cameraId] = o)
  /\ s.ffmpegProcess # "alive"
  /\ ~(s.restartTimer /\ s.status = "ERROR")

\* The fields of a StreamInfo that is no longer in the table which its
\* callbacks still read; nothing reads the others.
Detached(s) ==
  [s EXCEPT !.viewerCount = 0, !.lastViewerActivity = 0, !.zeroSince = 0]

Collect(g) ==
  [g EXCEPT !.streams =
     [o \in {p \in DOMAIN g.streams : ~Unreachable(g, p)} |->
        IF Tracked(g, g.streams[o].cameraId)
             /\ g.activeStreams[g.streams[o].cameraId] = o
        THEN g.streams[o]
        ELSE Detached(g.streams[o])]]

\* ------------------------------------------------ HLS manager (fallback) ---
\* hls.manager.js.  An hlsInfo object has the fields of a StreamInfo that the
\* manager uses; it keeps no restart count and sets no restart timer.

HlsState == [hlsStreams |-> hlsStreams, infos |-> hlsInfos]

HlsTracked(h, cameraId) == cameraId \in DOMAIN h.hlsStreams

NewHLSInfo(cameraId) ==
  [cameraId |-> cameraId, ffmpegProcess |-> "null", killed |-> FALSE,
   status |-> "STARTING", killTimer |-> FALSE, signal |-> ""]

\* startHLSStream returns the existing hlsInfo without starting anything.
startHLSStreamReturnsExisting(h, cameraId) ==
  /\ HlsTracked(h, cameraId)
  /\ h.infos[h.hlsStreams[cameraId]].status = "RUNNING"

\* The message of the Error startHLSStream rejects with, "" when it does not.
startHLSStreamThrows(h, registry, cameraId) ==
  IF startHLSStreamReturnsExisting(h, cameraId) THEN ""
  ELSE IF cameraId \notin DOMAIN registry THEN "Camera not found"
  ELSE ""

NewHLSId(h) ==
  CHOOSE o \in StreamIds \ DOMAIN h.infos :
    \A p \in StreamIds \ DOMAIN h.infos : o <= p

\* startHLSStream; spawned tells whether the spawn produced a running child
\* (the 'error' event of a failed spawn is applied here).
startHLSStream(h, registry, cameraId, spawned) ==
  IF startHLSStreamReturnsExisting(h, cameraId) THEN h
  ELSE IF startHLSStreamThrows(h, registry, cameraId) # "" THEN h
  ELSE LET o == NewHLSId(h)
           h1 == [h EXCEPT !.hlsStreams = MapSet(@, cameraId, o),
                           !.infos = MapSet(@, o, NewHLSInfo(cameraId))]
           h2 == [h1 EXCEPT !.infos[o].ffmpegProcess =
                               IF spawned THEN "alive" ELSE "failed",
                            !.infos[o].status = "RUNNING"]
       IN IF spawned THEN h2 ELSE [h2 EXCEPT !.infos[o].status = "ERROR"]

stopHLSStream(h, cameraId) ==
  IF ~HlsTracked(h, cameraId) THEN h
  ELSE LET o == h.hlsStreams[cameraId]
           s1 == [h.infos[o] EXCEPT !.status = "STOPPING"]
           s2 == IF s1.ffmpegProcess # "null"
                 THEN [kill(s1, "SIGTERM") EXCEPT !.killTimer = TRUE]
                 ELSE s1
       IN [h EXCEPT !.infos[o] = s2]

\* ffmpegProcess.on('exit') of the child of hlsInfo o.
onHLSExit(h, o) ==
  IF h.infos[o].status # "STOPPING"
  THEN [h EXCEPT !.infos[o].status = "ERROR"]
  ELSE [h EXCEPT !.infos[o].status = "STOPPED",
                 !.hlsStreams = MapDelete(@, h.infos[o].cameraId)]

\* The hlsInfo objects that the table holds or whose child still runs.
HlsCollect(h) ==
  [h EXCEPT !.infos =
     [o \in {p \in DOMAIN h.infos :
               \/ h.infos[p].ffmpegProcess = "alive"
               \/ /\ HlsTracked(h, h.infos[p].cameraId)
                  /\ h.hlsStreams[h.infos[p].cameraId] = p} |->
        h.infos[o]]]

\* ------------------------------------------------- gateway handlers ---

\* The outcome of a connection handler: "" when the viewer was admitted,
\* else the reason the socket was closed with.
Connection(cameraId, result) == [cameraId |-> cameraId, result |-> result]

Viewer(cameraId, ws, admitted, inSessions) ==
  [cameraId |-> cameraId, ws |-> ws, admitted |-> admitted,
   inSessions |-> inSessions]

NoViewers == [v \in {} |-> 0]

ViewerCount(B) == BagCardinality(B)
AddViewerSocket(B, v) == B (+) SetToBag({v})
RemoveViewerSocket(B, v) == B (-) SetToBag({v})

GatewayInit ==
  /\ cameraRegistry = [c \in {} |-> [cameraId |-> "", enabled |-> FALSE]]
  /\ log = NoLog
  /\ activeStreams = [c \in {} |-> 0]
  /\ streams = [o \in {} |-> NewStreamInfo("", 0)]
  /\ streamHealth = [c \in {} |-> [status |-> "", message |-> ""]]
  /\ viewers = NoViewers
  /\ autoStarts = [c \in RegisteredCameras |-> 0]
  /\ connection = Connection("", "")
  /\ hlsStreams = [c \in {} |-> 0]
  /\ hlsInfos = [o \in {} |-> NewHLSInfo("")]

SetGateway(g) ==
  /\ activeStreams' = Collect(g).activeStreams
  /\ streams' = Collect(g).streams
  /\ streamHealth' = Collect(g).streamHealth

otherVars == <<tokenVars, hubVars, controlVars, hlsVars>>

\* startStream(cameraId) would create a StreamInfo.
Allocates(g, cameraId) ==
  /\ startStreamThrows(cameraRegistry, cameraId) = ""
  /\ ~startStreamReturnsExisting(g, cameraId)

CanAllocate == Cardinality(DOMAIN streams) < MaxStreams

\* POST /register-camera.
RegisterCamera(cameraId, rtspUrl, enabled) ==
  /\ cameraRegistry' = registerCamera(cameraRegistry, cameraId, rtspUrl, enabled)
  /\ UNCHANGED <<now, otherVars, activeStreams, streams, streamHealth, viewers,
                 autoStarts, connection, log>>

\* wss.on('connection') for a viewer whose token names cameraId, up to and
\* including the continuation of startStream's promise.
ViewerConnect(cameraId, spawned) ==
  LET g == GwState
      running == Tracked(g, cameraId) /\ getStream(g, cameraId).status = "RUNNING"
      refused == running /\ addViewerThrows(g, cameraId) # ""
      startFails == ~running /\ startStreamThrows(cameraRegistry, cameraId) # ""
      g1 == IF running \/ startFails THEN g
            ELSE startStream(g, cameraId, now, spawned)
      error == IF startFails THEN "Failed to start camera stream"
               ELSE addViewerThrows(g1, cameraId)
      g2 == addViewer(g1, cameraId, now)
  IN /\ refused \/ ViewerCount(viewers) < MaxViewers
     /\ Allocates(g, cameraId) => CanAllocate
     /\ SetGateway(IF startFails THEN g ELSE g2)
     /\ viewers' =
          IF refused THEN viewers
          ELSE AddViewerSocket(viewers,
                 Viewer(cameraId, IF error = "" THEN "open" ELSE "closing",
                        error = "", TRUE))
     /\ autoStarts' = IF error = "" \/ Allocates(g, cameraId)
                      THEN [autoStarts EXCEPT ![cameraId] = 0]
                      ELSE autoStarts
     /\ connection' = Connection(cameraId, IF refused THEN addViewerThrows(g, cameraId)
                                            ELSE error)
     /\ log' = IF Allocates(g, cameraId)
               THEN StartingStream(cameraRegistry, cameraId)
               ELSE log
     /\ UNCHANGED <<now, otherVars, cameraRegistry>>

\* ws.on('close'): the socket is gone.
ViewerClose(v) ==
  /\ v \in DOMAIN viewers
  /\ SetGateway(removeViewer(GwState, v.cameraId, now))
  /\ viewers' = RemoveViewerSocket(viewers, v)
  /\ UNCHANGED <<now, otherVars, cameraRegistry, autoStarts, connection, log>>

\* ws.on('error'); the socket closes afterwards and emits 'close'.
ViewerError(v) ==
  /\ v \in DOMAIN viewers
  /\ v.ws = "open"
  /\ SetGateway(removeViewer(GwState, v.cameraId, now))
  /\ viewers' = AddViewerSocket(RemoveViewerSocket(viewers, v),
                                [v EXCEPT !.ws = "closing", !.inSessions = FALSE])
  /\ UNCHANGED <<now, otherVars, cameraRegistry, autoStarts, connection, log>>

\* The sockets of activeSessions for cameraId, as a sub-bag of viewers.
sessionsToClose(cameraId) ==
  [v \in {x \in DOMAIN viewers : x.inSessions /\ x.cameraId = cameraId} |->
     viewers[v]]

\* A socket after ws.close() and activeSessions.delete().
Closed(v) == [v EXCEPT !.ws = "closing", !.inSessions = FALSE]

RECURSIVE CloseAll(_, _)
CloseAll(B, toClose) ==
  IF toClose = {} THEN B
  ELSE LET v == CHOOSE x \in toClose : TRUE
           n == B[v]
           moved == [x \in {Closed(v)} |-> n]
       IN CloseAll(([x \in DOMAIN B \ {v} |-> B[x]]) (+) moved, toClose \ {v})

CloseSessionsForCamera(cameraId) ==
  /\ SetGateway(removeViewers(GwState, cameraId,
                              BagCardinality(sessionsToClose(cameraId)), now))
  /\ viewers' = CloseAll(viewers, DOMAIN sessionsToClose(cameraId))
  /\ UNCHANGED <<now, otherVars, cameraRegistry, autoStarts, connection, log>>

\* The child of StreamInfo o exits, by itself or after a signal.
ChildExit(o) ==
  /\ o \in DOMAIN streams
  /\ streams[o].ffmpegProcess = "alive"
  /\ SetGateway(onProcessExit(
       [GwState EXCEPT !.streams[o].ffmpegProcess = "exited"], o))
  /\ UNCHANGED <<now, otherVars, cameraRegistry, viewers, autoStarts, connection, log>>

\* ffmpegProcess.stdout.on('data') of the child of StreamInfo o.
StdoutData(o) ==
  /\ o \in DOMAIN streams
  /\ streams[o].ffmpegProcess = "alive"
  /\ SetGateway([GwState EXCEPT !.streams[o].lastViewerActivity = now])
  /\ UNCHANGED <<now, otherVars, cameraRegistry, viewers, autoStarts, connection, log>>

\* The restart timer that the 'exit' handler of StreamInfo o set.
RestartTimer(o, spawned) ==
  LET cameraId == streams[o].cameraId
      g == [GwState EXCEPT !.streams[o].restartTimer = FALSE]
      restarts == Tracked(g, cameraId) /\ streams[o].status = "ERROR"
  IN /\ o \in DOMAIN streams
     /\ streams[o].restartTimer
     /\ (restarts /\ Allocates(g, cameraId)) => CanAllocate
     /\ SetGateway(IF restarts /\ startStreamThrows(cameraRegistry, cameraId) = ""
                   THEN startStream(g, cameraId, now, spawned)
                   ELSE g)
     /\ log' = IF restarts /\ Allocates(g, cameraId)
               THEN StartingStream(cameraRegistry, cameraId)
               ELSE log
     /\ UNCHANGED <<now, otherVars, cameraRegistry, viewers, connection>>

\* The restart timer of StreamInfo o starts a worker.
Restarts(o) ==
  /\ Tracked(GwState, streams[o].cameraId)
  /\ streams[o].status = "ERROR"
  /\ Allocates(GwState, streams[o].cameraId)

\* RestartTimer, with the history of the workers it started.
RestartTimerCounted(o, spawned) ==
  /\ RestartTimer(o, spawned)
  /\ Restarts(o) => autoStarts[streams[o].cameraId] < MaxAutoStarts
  /\ autoStarts' = IF Restarts(o)
                   THEN [autoStarts EXCEPT ![streams[o].cameraId] = @ + 1]
                   ELSE autoStarts

\* RestartTimer in the specifications that keep no restart history.
RestartTimerUncounted(o, spawned) ==
  /\ RestartTimer(o, spawned)
  /\ UNCHANGED autoStarts

\* The force-kill timer that stopStream set for StreamInfo o.
ForceKillTimer(o) ==
  /\ o \in DOMAIN streams
  /\ streams[o].killTimer
  /\ SetGateway([GwState EXCEPT !.streams[o] =
       [(IF ~streams[o].killed THEN kill(streams[o], "SIGKILL")
          ELSE streams[o])
          EXCEPT !.killTimer = FALSE]])
  /\ UNCHANGED <<now, otherVars, cameraRegistry, viewers, autoStarts, connection, log>>

\* The periodic cleanup of initializeRTSP.
ReaperTick ==
  /\ SetGateway(reaper(GwState, now))
  /\ UNCHANGED <<now, otherVars, cameraRegistry, viewers, autoStarts, connection, log>>

GatewayTick ==
  /\ now < MaxGwTime
  /\ now' = now + 1
  /\ UNCHANGED <<otherVars, gwVars>>

GatewayNext ==
  \/ \E c \in RegisteredCameras, enabled \in BOOLEAN :
       RegisterCamera(c, CameraUrl, enabled)
  \/ \E c \in RegisteredCameras, spawned \in BOOLEAN : ViewerConnect(c, spawned)
  \/ \E v \in DOMAIN viewers : ViewerClose(v)
  \/ \E v \in DOMAIN viewers : ViewerError(v)
  \/ \E c \in RegisteredCameras : CloseSessionsForCamera(c)
  \/ \E o \in StreamIds : ChildExit(o)
  \/ \E o \in StreamIds : StdoutData(o)
  \/ \E o \in StreamIds, spawned \in BOOLEAN : RestartTimerUncounted(o, spawned)
  \/ \E o \in StreamIds : ForceKillTimer(o)
  \/ ReaperTick
  \/ GatewayTick

\* The worker supervisor alone, at one instant, with the restart history.
SupervisorNext ==
  \/ \E c \in RegisteredCameras, enabled \in BOOLEAN :
       RegisterCamera(c, CameraUrl, enabled)
  \/ \E c \in RegisteredCameras, spawned \in BOOLEAN : ViewerConnect(c, spawned)
  \/ \E v \in DOMAIN viewers : ViewerClose(v)
  \/ \E o \in StreamIds : ChildExit(o)
  \/ \E o \in StreamIds, spawned \in BOOLEAN : RestartTimerCounted(o, spawned)

\* stopStream(cameraId), called by the shutdown handler or another module.
StopStream(cameraId) ==
  /\ SetGateway(stopStream(GwState, cameraId))
  /\ UNCHANGED <<now, otherVars, cameraRegistry, viewers, autoStarts, connection, log>>

\* The supervisor with explicit stops, at one instant.
StopNext ==
  \/ \E c \in RegisteredCameras : RegisterCamera(c, CameraUrl, TRUE)
  \/ \E c \in RegisteredCameras, spawned \in BOOLEAN : ViewerConnect(c, spawned)
  \/ \E v \in DOMAIN viewers : ViewerClose(v)
  \/ \E c \in RegisteredCameras : StopStream(c)
  \/ \E o \in StreamIds : ChildExit(o)
  \/ \E o \in StreamIds, spawned \in BOOLEAN : RestartTimerUncounted(o, spawned)

\* -------------------------------------- the two managers side by side ---
\* The same events reach the primary worker and the HLS worker of a camera.

SetHls(h) ==
  /\ hlsStreams' = HlsCollect(h).hlsStreams
  /\ hlsInfos' = HlsCollect(h).infos

hlsUnchanged ==
  <<now, tokenVars, hubVars, controlVars, cameraRegistry, viewers, autoStarts,
    connection>>

\* startStream(cameraId) and startHLSStream(cameraId).
StartBoth(cameraId, spawned) ==
  LET g == GwState
      h == HlsState
  IN /\ Allocates(g, cameraId) => CanAllocate
     /\ Cardinality(DOMAIN hlsInfos) < MaxStreams
     /\ SetGateway(IF startStreamThrows(cameraRegistry, cameraId) = ""
                   THEN startStream(g, cameraId, now, spawned)
                   ELSE g)
     /\ SetHls(startHLSStream(h, cameraRegistry, cameraId, spawned))
     /\ log' = IF Allocates(g, cameraId)
               THEN StartingStream(cameraRegistry, cameraId)
               ELSE log
     /\ UNCHANGED hlsUnchanged

\* stopStream(cameraId) and stopHLSStream(cameraId).
StopBoth(cameraId) ==
  /\ SetGateway(stopStream(GwState, cameraId))
  /\ SetHls(stopHLSStream(HlsState, cameraId))
  /\ UNCHANGED <<hlsUnchanged, log>>

\* GwState after the exit of the child of the worker in the table.
ExitOfTracked(g, cameraId) ==
  IF Tracked(g, cameraId) /\ getStream(g, cameraId).ffmpegProcess = "alive"
  THEN onProcessExit(
         [g EXCEPT !.streams[g.activeStreams[cameraId]].ffmpegProcess = "exited"],
         g.activeStreams[cameraId])
  ELSE g

HlsExitOfTracked(h, cameraId) ==
  IF HlsTracked(h, cameraId)
       /\ h.infos[h.hlsStreams[cameraId]].ffmpegProcess = "alive"
  THEN onHLSExit(
         [h EXCEPT !.infos[h.hlsStreams[cameraId]].ffmpegProcess = "exited"],
         h.hlsStreams[cameraId])
  ELSE h

\* The children of the two workers of the camera exit.
ExitBoth(cameraId) ==
  /\ \/ ExitOfTracked(GwState, cameraId) # GwState
     \/ HlsExitOfTracked(HlsState, cameraId) # HlsState
  /\ SetGateway(ExitOfTracked(GwState, cameraId))
  /\ SetHls(HlsExitOfTracked(HlsState, cameraId))
  /\ UNCHANGED <<hlsUnchanged, log>>

\* The child of a worker that is no longer in its table exits.
DetachedExit(o) ==
  /\ o \in DOMAIN streams
  /\ ~(Tracked(GwState, streams[o].cameraId)
       /\ activeStreams[streams[o].cameraId] = o)
  /\ ChildExit(o)

HlsDetachedExit(o) ==
  /\ o \in DOMAIN hlsInfos
  /\ hlsInfos[o].ffmpegProcess = "alive"
  /\ ~(HlsTracked(HlsState, hlsInfos[o].cameraId)
       /\ hlsStreams[hlsInfos[o].cameraId] = o)
  /\ SetHls(onHLSExit([HlsState EXCEPT !.infos[o].ffmpegProcess = "exited"], o))
  /\ UNCHANGED <<hlsUnchanged, log, activeStreams, streams, streamHealth>>

HlsNext ==
  \/ \E c \in RegisteredCameras, enabled \in BOOLEAN :
       RegisterCamera(c, CameraUrl, enabled)
  \/ \E c \in RegisteredCameras, spawned \in BOOLEAN : StartBoth(c, spawned)
  \/ \E c \in RegisteredCameras : StopBoth(c)
  \/ \E c \in RegisteredCameras : ExitBoth(c)
  \/ \E o \in StreamIds : DetachedExit(o)
  \/ \E o \in StreamIds : HlsDetachedExit(o)
  \/ \E o \in StreamIds, spawned \in BOOLEAN : RestartTimerUncounted(o, spawned)

\* ====================================================== control plane ====
\* camera.registry.js, camera.access.js and the routes of /api/cctv.

\* The value of ROLES.MONITOR and the roles an authenticated request carries
\* ("" when the identity token has no role).
MONITOR == "MONITOR"
Roles == {"KIOSK", "MONITOR", ""}

CameraIdInputs == Cameras \cup {""}
StatusInputs == {"ONLINE", "BAD"}

\* The configurations POST /api/cctv/cameras passes to registerCamera.
\* A config is the argument object: it carries enabled or leaves it out.
CameraConfigs ==
  [cameraId : CameraIdInputs,
   rtspUrl : RtspUrls \cup {NoUrl, RtspUrl("http:", "", "", "10.0.0.5", "/")},
   enabled : BOOLEAN]
  \cup
  [cameraId : CameraIdInputs,
   rtspUrl : RtspUrls \cup {NoUrl, RtspUrl("http:", "", "", "10.0.0.5", "/")}]

null == [null |-> TRUE]

\* Faulty variant: a camera that is registered already is registered again.
ControlRegisterCameraThrows_NoExistsCheck(C, config) ==
  IF config.cameraId = "" \/ config.rtspUrl = NoUrl
  THEN "cameraId and rtspUrl are required"
  ELSE IF config.rtspUrl.protocol # "rtsp:"
  THEN "rtspUrl must start with rtsp://"
  ELSE ""

\* The message of the Error the registry's registerCamera throws, "" if none.
ControlRegisterCameraThrows(C, config) ==
  IF config.cameraId = "" \/ config.rtspUrl = NoUrl
  THEN "cameraId and rtspUrl are required"
  ELSE IF config.rtspUrl.protocol # "rtsp:"
  THEN "rtspUrl must start with rtsp://"
  ELSE IF config.cameraId \in DOMAIN C THEN "Camera already registered"
  ELSE ""

cameraData(config, t) ==
  [cameraId |-> config.cameraId, rtspUrl |-> config.rtspUrl,
   location |-> "Unknown",
   enabled |-> IF "enabled" \in DOMAIN config THEN config.enabled # FALSE
               ELSE TRUE,
   registeredAt |-> t,
   status |-> "OFFLINE", lastStatusUpdate |-> t]

\* The registry after registerCamera(config) of camera.registry.js.
ControlRegisterCamera(C, config, t) ==
  IF ControlRegisterCameraThrows(C, config) # "" THEN C
  ELSE MapSet(C, config.cameraId, cameraData(config, t))

\* What registerCamera(config) returns when it does not throw.
ControlRegisterCameraReturn(config, t) ==
  [cameraId |-> cameraData(config, t).cameraId,
   location |-> cameraData(config, t).location,
   enabled |-> cameraData(config, t).enabled,
   registeredAt |-> cameraData(config, t).registeredAt,
   status |-> cameraData(config, t).status]

getCamera(C, cameraId) ==
  IF cameraId = "" \/ cameraId \notin DOMAIN C THEN null
  ELSE [cameraId |-> C[cameraId].cameraId,
        location |-> C[cameraId].location,
        enabled |-> C[cameraId].enabled,
        registeredAt |-> C[cameraId].registeredAt,
        status |-> C[cameraId].status,
        lastStatusUpdate |-> C[cameraId].lastStatusUpdate]

\* The elements of the array getAllCameras returns.
getAllCameras(C, enabledOnly) ==
  {x \in {getCamera(C, c) : c \in DOMAIN C} : enabledOnly => x.enabled}

\* Array.from(cameras.values()) for the entries under keys: one element per
\* entry of the map (the order of the elements is not modelled).
RECURSIVE camerasValues(_, _)
camerasValues(C, keys) ==
  IF keys = {} THEN << >>
  ELSE LET k == CHOOSE x \in keys : TRUE
       IN <<C[k]>> \o camerasValues(C, keys \ {k})

\* The array getAllCameras returns.
getAllCamerasArray(C, enabledOnly) ==
  LET values == camerasValues(C, DOMAIN C)
      allCameras == [i \in DOMAIN values |-> getCamera(C, values[i].cameraId)]
  IN IF enabledOnly THEN SelectSeq(allCameras, LAMBDA camera : camera.enabled)
     ELSE allCameras

getEnabledCameras(C) == getAllCameras(C, TRUE)

getRTSPUrl(C, cameraId) ==
  IF cameraId \in DOMAIN C THEN C[cameraId].rtspUrl ELSE NoUrl

\* What updateCameraStatus returns.
updateCameraStatusReturn(C, cameraId, status) ==
  /\ cameraId # ""
  /\ status # ""
  /\ status \in {"ONLINE", "OFFLINE", "ERROR"}
  /\ cameraId \in DOMAIN C

\* Faulty variant: the status is stored without looking at its value.
updateCameraStatus_AnyStatus(C, cameraId, status, t) ==
  IF cameraId = "" \/ status = "" THEN C
  ELSE IF cameraId \notin DOMAIN C THEN C
  ELSE [C EXCEPT ![cameraId].status = status,
                 ![cameraId].lastStatusUpdate = t]

updateCameraStatus(C, cameraId, status, t) ==
  IF cameraId = "" \/ status = "" THEN C
  ELSE IF status \notin {"ONLINE", "OFFLINE", "ERROR"} THEN C
  ELSE IF cameraId \notin DOMAIN C THEN C
  ELSE [C EXCEPT ![cameraId].status = status,
                 ![cameraId].lastStatusUpdate = t]

setCameraEnabled(C, cameraId, enabled) ==
  IF cameraId \notin DOMAIN C THEN C
  ELSE [C EXCEPT ![cameraId].enabled = enabled]

\* Faulty variant: the camera is disabled and stays in the registry.
removeCamera_Disable(C, cameraId) ==
  IF cameraId \notin DOMAIN C THEN C
  ELSE [C EXCEPT ![cameraId].enabled = FALSE]

removeCamera(C, cameraId) == MapDelete(C, cameraId)

\* Faulty variant: every camera counts as enabled.
isCameraEnabled_Always(C, cameraId) == TRUE

isCameraEnabled(C, cameraId) ==
  IF cameraId \in DOMAIN C THEN C[cameraId].enabled ELSE FALSE

\* The error of validateCameraAccess, "" when access is allowed.
validateCameraAccess(C, cameraId, role) ==
  IF role # MONITOR THEN "Only MONITOR role can access cameras"
  ELSE IF getCamera(C, cameraId) = null THEN "Camera not found"
  ELSE IF ~isCameraEnabled(C, cameraId) THEN "Camera is disabled"
  ELSE ""

\* The message of the Error generateStreamToken throws, "" if none.
generateStreamTokenThrows(C, cameraId) ==
  IF getCamera(C, cameraId) = null THEN "Camera not found"
  ELSE IF ~isCameraEnabled(C, cameraId) THEN "Camera is disabled"
  ELSE ""

Response(status, error, token) ==
  [status |-> status, error |-> error, token |-> token]

\* The response of POST /api/cctv/stream-token to an authenticated request
\* of a client with `role`, at time t.
postStreamToken(C, role, cameraId, t) ==
  IF role # MONITOR
  THEN Response(403, "Only MONITOR role can access cameras", NoToken)
  ELSE IF cameraId = "" THEN Response(400, "cameraId is required", NoToken)
  ELSE IF validateCameraAccess(C, cameraId, role) # ""
  THEN Response(403, validateCameraAccess(C, cameraId, role), NoToken)
  ELSE IF generateStreamTokenThrows(C, cameraId) # ""
  THEN Response(404, generateStreamTokenThrows(C, cameraId), NoToken)
  ELSE Response(200, "", generateStreamToken(cameraId, t))

Request(role, cameraId, response) ==
  [role |-> role, cameraId |-> cameraId, response |-> response]

NoRequest == Request("", "", Response(0, "", NoToken))

\* The secrets a request carries in the x-gateway-secret header or in
\* body.secret ("" when it carries none), and the values of GATEWAY_SECRET.
Secrets == {"", "s3cret", "guess"}
GatewaySecrets == {"", "s3cret"}

Report(cameraId, status) == [cameraId |-> cameraId, status |-> status]

\* A body carries a cameras array or none.
Body(secret, batch) == [secret |-> secret, cameras |-> batch]

Batches ==
  UNION {[1..n -> {Report(c, status) : c \in CameraIdInputs,
                                       status \in StatusInputs}] :
           n \in 0..MaxBatch}

Bodies == {Body(secret, batch) : secret \in Secrets, batch \in Batches}
          \cup [secret : Secrets]

\* Faulty variant: the middleware lets every request pass.
validateGatewaySecret_Skip(gatewaySecret, header, body) == 0

\* The status validateGatewaySecret responds with, 0 when it calls next().
validateGatewaySecret(gatewaySecret, header, body) ==
  IF gatewaySecret = "" THEN 0
  ELSE LET providedSecret == IF header # "" THEN header ELSE body.secret IN
       IF providedSecret # gatewaySecret THEN 401 ELSE 0

\* Faulty variant: the loop ends at the first report it cannot apply.
RECURSIVE applyReports_StopAtInvalid(_, _, _, _)
applyReports_StopAtInvalid(C, batch, i, t) ==
  IF i > Len(batch) THEN C
  ELSE IF batch[i].cameraId = "" \/ batch[i].status = "" THEN C
  ELSE IF ~updateCameraStatusReturn(C, batch[i].cameraId, batch[i].status) THEN C
  ELSE applyReports_StopAtInvalid(
         updateCameraStatus(C, batch[i].cameraId, batch[i].status, t),
         batch, i + 1, t)

\* The registry after the loop of the handler over the reports from index i.
RECURSIVE applyReports(_, _, _, _)
applyReports(C, batch, i, t) ==
  IF i > Len(batch) THEN C
  ELSE applyReports(
         IF batch[i].cameraId = "" \/ batch[i].status = "" THEN C
         ELSE updateCameraStatus(C, batch[i].cameraId, batch[i].status, t),
         batch, i + 1, t)

\* The counter `updated` after the loop over the reports from index i.
RECURSIVE countUpdated(_, _, _)
countUpdated(C, batch, i) ==
  IF i > Len(batch) THEN 0
  ELSE (IF batch[i].cameraId # "" /\ batch[i].status # ""
           /\ updateCameraStatusReturn(C, batch[i].cameraId, batch[i].status)
        THEN 1 ELSE 0)
       + countUpdated(C, batch, i + 1)

\* The counter `errors` after the loop over the reports from index i.
RECURSIVE countErrors(_, _, _)
countErrors(C, batch, i) ==
  IF i > Len(batch) THEN 0
  ELSE (IF batch[i].cameraId = "" \/ batch[i].status = "" THEN 1
        ELSE IF updateCameraStatusReturn(C, batch[i].cameraId, batch[i].status)
             THEN 0 ELSE 1)
       + countErrors(C, batch, i + 1)

\* The registry after POST /api/cctv/health-callback.
healthCallback(C, gatewaySecret, header, body, t) ==
  IF validateGatewaySecret(gatewaySecret, header, body) # 0 THEN C
  ELSE IF "cameras" \notin DOMAIN body THEN C
  ELSE applyReports(C, body.cameras, 1, t)

HealthResponse(status, error, updated, errors, total) ==
  [status |-> status, success |-> (status = 200), error |-> error,
   updated |-> updated, errors |-> errors, total |-> total]

\* The response of POST /api/cctv/health-callback.
healthCallbackResponse(C, gatewaySecret, header, body) ==
  IF validateGatewaySecret(gatewaySecret, header, body) # 0
  THEN HealthResponse(401, "Invalid gateway secret", 0, 0, 0)
  ELSE IF "cameras" \notin DOMAIN body
  THEN HealthResponse(400, "cameras array is required", 0, 0, 0)
  ELSE HealthResponse(200, "", countUpdated(C, body.cameras, 1),
                      countErrors(C, body.cameras, 1),
                      Len(body.cameras))

ControlInit ==
  /\ cameras = [c \in {} |-> cameraData([cameraId |-> "", rtspUrl |-> NoUrl,
                                         enabled |-> FALSE], 0)]
  /\ request = NoRequest
  /\ GATEWAY_SECRET = ""

controlUnchanged == <<now, tokenVars, hubVars, gwVars, GATEWAY_SECRET>>

\* POST /api/cctv/cameras.
PostCameras(config) ==
  /\ cameras' = ControlRegisterCamera(cameras, config, now)
  /\ UNCHANGED <<controlUnchanged, request>>

SetCameraEnabled(cameraId, enabled) ==
  /\ cameras' = setCameraEnabled(cameras, cameraId, enabled)
  /\ UNCHANGED <<controlUnchanged, request>>

RemoveCamera(cameraId) ==
  /\ cameras' = removeCamera(cameras, cameraId)
  /\ UNCHANGED <<controlUnchanged, request>>

\* POST /api/cctv/health-callback.
HealthCallback(header, body) ==
  /\ cameras' = healthCallback(cameras, GATEWAY_SECRET, header, body, now)
  /\ UNCHANGED <<controlUnchanged, request>>

\* POST /api/cctv/stream-token.
PostStreamToken(role, cameraId) ==
  LET response == postStreamToken(cameras, role, cameraId, now) IN
  /\ response.token # NoToken =>
       (response.token \in issued \/ Cardinality(issued) < MaxIssued)
  /\ request' = Request(role, cameraId, response)
  /\ issued' = IF response.token # NoToken
               THEN issued \cup {response.token}
               ELSE issued
  /\ UNCHANGED <<now, usedTokens, validation, admissions, checked, hubVars, gwVars,
                 cameras, GATEWAY_SECRET>>

RegistryNext ==
  \/ \E config \in CameraConfigs : PostCameras(config)
  \/ \E c \in Cameras, enabled \in BOOLEAN : SetCameraEnabled(c, enabled)
  \/ \E c \in Cameras : RemoveCamera(c)
  \/ \E c \in CameraIdInputs, status \in StatusInputs :
       HealthCallback("", Body("", <<Report(c, status)>>))

\* The health-callback sink of a control plane started with or without a
\* gateway secret.
HealthNext ==
  \/ \E config \in CameraConfigs : PostCameras(config)
  \/ \E header \in Secrets, body \in Bodies : HealthCallback(header, body)

\* The control plane: the registry and the token endpoint.
ControlNext ==
  \/ RegistryNext
  \/ \E role \in Roles, c \in CameraIdInputs : PostStreamToken(role, c)

\* The two camera registries and the workers the gateway starts from its own.
CamerasNext ==
  \/ RegistryNext
  \/ \E c \in RegisteredCameras, rtspUrl \in RtspUrls, enabled \in BOOLEAN :
       RegisterCamera(c, rtspUrl, enabled)
  \/ \E c \in RegisteredCameras, spawned \in BOOLEAN : ViewerConnect(c, spawned)

\* ==================================================== specifications ====

Init == now = 0 /\ TokenInit /\ HubInit /\ GatewayInit /\ ControlInit

\* The control plane started with GATEWAY_SECRET set or unset.
ConfiguredInit ==
  /\ now = 0
  /\ TokenInit
  /\ HubInit
  /\ GatewayInit
  /\ cameras = [c \in {} |-> cameraData([cameraId |-> "", rtspUrl |-> NoUrl], 0)]
  /\ request = NoRequest
  /\ GATEWAY_SECRET \in GatewaySecrets

SpecToken == Init /\ [][TokenNext]_vars
SpecEndpoint == Init /\ [][EndpointNext]_vars
SpecValidation == Init /\ [][ValidationNext]_vars
SpecAdmission == Init /\ [][AdmissionNext]_vars
SpecStore == Init /\ [][StoreNext]_vars
SpecTimeout == Init /\ [][TimeoutNext]_vars
SpecHub == Init /\ [][HubNext]_vars
SpecGateway == Init /\ [][GatewayNext]_vars
SpecSupervisor == Init /\ [][SupervisorNext]_vars
SpecStop == Init /\ [][StopNext]_vars
SpecHls == Init /\ [][HlsNext]_vars
SpecControl == Init /\ [][ControlNext]_vars
SpecHealth == ConfiguredInit /\ [][HealthNext]_vars
SpecCameras == Init /\ [][CamerasNext]_vars

\* ================================================================ claims ===

OneActiveSessionPerKiosk(S) ==
  \A k \in Kiosks :
    Cardinality({x \in DOMAIN S : S[x].kioskId = k /\ S[x].status = "active"}) <= 1

CreateOnExistingFails ==
  \A k \in DOMAIN sessions :
    (call'.op = "createSession" /\ call'.kioskId = k)
      => (call'.result = "throw" /\ sessions' = sessions)

C2_OneSessionPerKiosk ==
  [][OneActiveSessionPerKiosk(sessions') /\ CreateOnExistingFails]_vars

\* createSession was refused for a kiosk that another monitor is watching.
C2_ConflictRefused ==
  /\ call.op = "createSession"
  /\ call.result = "throw"
  /\ call.kioskId \in DOMAIN sessions
  /\ sessions[call.kioskId].monitorSocketId # call.from
  /\ call.from # ""

\* ---- C3 -------------------------------------------------------------------
\* After MAX_RESTARTS consecutive unexpected exits of a camera's child no
\* further restart is attempted: the restart timers start at most
\* MAX_RESTARTS workers for a camera in a row, with no viewer connection in
\* between.
C3_RestartsCapped ==
  \A c \in RegisteredCameras : autoStarts[c] <= MAX_RESTARTS

\* ---- C4 -------------------------------------------------------------------
\* The open viewer connections that were admitted for a camera never exceed
\* MAX_VIEWERS_PER_CAMERA.
OpenAdmitted(cameraId) ==
  [v \in {x \in DOMAIN viewers :
            x.cameraId = cameraId /\ x.ws = "open" /\ x.admitted} |-> viewers[v]]

C4_OpenViewersWithinCap ==
  \A c \in RegisteredCameras :
    BagCardinality(OpenAdmitted(c)) <= MAX_VIEWERS_PER_CAMERA

\* ---- C5 -------------------------------------------------------------------
\* For every tracked worker 0 <= viewerCount <= MAX_VIEWERS_PER_CAMERA;
\* addViewer at the cap throws and leaves the count unchanged; removeViewer
\* at 0 leaves it at 0.
C5_ViewerCountWithinBounds ==
  \A c \in DOMAIN activeStreams :
    LET g == GwState
        n == getStream(g, c).viewerCount
    IN /\ 0 <= n
       /\ n <= MAX_VIEWERS_PER_CAMERA
       /\ n = MAX_VIEWERS_PER_CAMERA
            => /\ addViewerThrows(g, c) = "Max viewers reached"
               /\ addViewer(g, c, now) = g
       /\ n = 0 => /\ Tracked(removeViewer(g, c, now), c)
                   /\ getStream(removeViewer(g, c, now), c).viewerCount = 0

\* A viewer was refused at the cap.
C5_RefusedAtCap ==
  /\ connection.result = "Max viewers reached"
  /\ Tracked(GwState, connection.cameraId)
  /\ getStream(GwState, connection.cameraId).viewerCount = MAX_VIEWERS_PER_CAMERA

\* ---- C6 -------------------------------------------------------------------
\* A worker whose viewerCount has been 0 for longer than
\* STREAM_TIMEOUT_NO_VIEWERS is stopped by the next reaper tick, whether or
\* not its child keeps producing output.
C6_IdleWorkerReaped ==
  \A c \in DOMAIN activeStreams :
    LET s == getStream(GwState, c) IN
    (/\ s.viewerCount = 0
     /\ s.zeroSince # NoTime
     /\ now - s.zeroSince > STREAM_TIMEOUT_NO_VIEWERS
     /\ s.status \notin {"STOPPING", "STOPPED"})
      => getStream(reaper(GwState, now), c).status = "STOPPING"

\* ---- C7 -------------------------------------------------------------------
\* At most one child process per cameraId is alive, and every live child is
\* the one recorded in the worker table.
LiveChildren(cameraId) ==
  {o \in DOMAIN streams :
     streams[o].cameraId = cameraId /\ streams[o].ffmpegProcess = "alive"}

C7_OneRecordedChild ==
  \A c \in RegisteredCameras :
    /\ Cardinality(LiveChildren(c)) <= 1
    /\ \A o \in LiveChildren(c) :
         c \in DOMAIN activeStreams /\ activeStreams[c] = o

\* ---- C8 -------------------------------------------------------------------
\* validateSessionOwnership(kioskId, s) is true iff a session exists for
\* kioskId, it is active and its monitorSocketId is s; a call or media command
\* of a monitor whose handle is not the session's is answered
\* SIGNALING_NOT_OWNER and changes no session.
OwnershipIff ==
  \A k \in KioskInputs, h \in SocketInputs :
    validateSessionOwnership(sessions, k, h)
      <=> /\ k \in DOMAIN sessions
          /\ sessions[k].status = "active"
          /\ sessions[k].monitorSocketId = h

MonitorHandles == {c.handle : c \in {x \in ClientConns : x.role = "MONITOR"}}

NonOwnerRejected ==
  \A k \in DOMAIN sessions :
    (/\ call'.op \in CallCommands \cup MediaCommands
     /\ call'.kioskId = k
     /\ call'.from \in MonitorHandles
     /\ call'.from # sessions[k].monitorSocketId)
      => (call'.result = "SIGNALING_NOT_OWNER" /\ sessions' = sessions)

C8_OnlyOwnerCommands == []OwnershipIff /\ [][NonOwnerRejected]_vars

\* A monitor that does not own the session sent a call or media command.
C8_NonOwnerCommand ==
  /\ call.op \in CallCommands \cup MediaCommands
  /\ call.from \in MonitorHandles
  /\ call.kioskId \in DOMAIN sessions
  /\ sessions[call.kioskId].monitorSocketId # call.from
  /\ call.result = "SIGNALING_NOT_OWNER"

\* ---- C9 -------------------------------------------------------------------
\* After any sequence of updateCallState calls: connected implies
\* callStartedAt is set; idle or ended implies callInitiatedBy and
\* callStartedAt are null.
C9_CallFieldsConsistent ==
  \A k \in DOMAIN sessions :
    /\ sessions[k].callState = "connected" => sessions[k].callStartedAt # NoTime
    /\ sessions[k].callState \in {"idle", "ended"}
         => /\ sessions[k].callInitiatedBy = ""
            /\ sessions[k].callStartedAt = NoTime

\* updateCallState(k, 'idle', initiatedBy) was applied to a session.
C9_IdleAfterUpdate ==
  /\ call.op = "updateCallState"
  /\ call.result = "true"
  /\ call.kioskId \in DOMAIN sessions
  /\ sessions[call.kioskId].callState = "idle"

\* ---- C10 ------------------------------------------------------------------
\* callState changes only along the call table: idle to connecting on
\* call-request, connecting to connected on call-accept from the side
\* opposite to the initiator, connecting to idle on call-reject from the
\* opposite side, connecting or connected to idle on call-end; a command
\* answered with an error changes no session.
SideOfHandle(h) == Side(CHOOSE c \in ClientConns : c.handle = h)

TableStep(old, new, op, side) ==
  \/ /\ op = "call-request"
     /\ old.callState = "idle"
     /\ new.callState = "connecting"
     /\ new.callInitiatedBy = side
  \/ /\ op = "call-accept"
     /\ old.callState = "connecting"
     /\ new.callState = "connected"
     /\ side = Opposite(old.callInitiatedBy)
  \/ /\ op = "call-reject"
     /\ old.callState = "connecting"
     /\ new.callState = "idle"
     /\ side = Opposite(old.callInitiatedBy)
  \/ /\ op = "call-end"
     /\ old.callState \in {"connecting", "connected"}
     /\ new.callState = "idle"

CallTableStep ==
  /\ \A k \in DOMAIN sessions \cap DOMAIN sessions' :
       sessions'[k].callState # sessions[k].callState
         => /\ call'.kioskId = k
            /\ TableStep(sessions[k], sessions'[k], call'.op,
                         SideOfHandle(call'.from))
  /\ (call'.op \in CallCommands /\ call'.result = "ok")
       => /\ call'.kioskId \in DOMAIN sessions \cap DOMAIN sessions'
          /\ TableStep(sessions[call'.kioskId], sessions'[call'.kioskId],
                       call'.op, SideOfHandle(call'.from))
  /\ (call'.op \in CallCommands \cup MediaCommands /\ call'.result # "ok")
       => sessions' = sessions

C10_CallStateFollowsTable == [][CallTableStep]_vars

\* A call requested by the kiosk was accepted by the monitor.
C10_AcceptedByOpposite ==
  /\ call.op = "call-accept"
  /\ call.result = "ok"
  /\ call.from \in MonitorHandles
  /\ sessions[call.kioskId].callState = "connected"
  /\ sessions[call.kioskId].callInitiatedBy = "kiosk"

\* ---- C11 ------------------------------------------------------------------
\* C11: a stop completes.  Only the 'exit' handler of the child sets STOPPED
\* and removes the entry, so every worker of the table that is STOPPING has a
\* child that still runs, and once the timer of the grace period has run
\* that child has been sent SIGKILL.
C11_StopCompletes ==
  \A c \in DOMAIN activeStreams :
    LET s == streams[activeStreams[c]] IN
    s.status = "STOPPING" =>
      /\ s.ffmpegProcess = "alive"
      /\ s.killTimer \/ s.signal = "SIGKILL"

\* ---- C12 ------------------------------------------------------------------
\* C12: when the child of a worker exits after MAX_RESTARTS automatic
\* restarts in a row, the worker is permanently failed: the health record of
\* the camera is ERROR with 'Max restart attempts reached' and no viewer
\* connection of the camera is open.
C12_PermanentFailure ==
  \A c \in DOMAIN activeStreams :
    LET s == streams[activeStreams[c]] IN
    (autoStarts[c] >= MAX_RESTARTS /\ s.status = "ERROR"
       /\ s.ffmpegProcess = "exited")
      => /\ streamHealth[c] =
              [status |-> "ERROR", message |-> "Max restart attempts reached"]
         /\ \A v \in DOMAIN viewers : v.cameraId = c => v.ws # "open"

\* ---- C13 ------------------------------------------------------------------
\* A token is past its expiry for the checks of validateStreamToken.
Expired(token, t) ==
  jwtVerify(token, t) = "TokenExpiredError" \/ token.expiresAt < t

\* The reason of the first failing check in the order (1) signature and
\* expiry, (2) replay, (3) VIEW permission; "" when every check passes.
FirstFailingCheck(token, inReplaySet, t) ==
  IF token = NoToken THEN "Token required"
  ELSE IF token.sig # "good" THEN "Invalid token signature"
  ELSE IF Expired(token, t) THEN "Token expired"
  ELSE IF inReplaySet THEN "Token already used"
  ELSE IF "VIEW" \notin permissionsOrDefault(token) THEN "No VIEW permission"
  ELSE ""

\* C13: the outcome of every viewer admission is the reason of the first
\* failing check in the order signature and expiry, replay, VIEW permission;
\* a token that is expired and in the replay set is refused as expired.
C13_AdmissionOrder ==
  validation # NoValidation =>
    verifyClient(validation.token, validation.result) =
      FirstFailingCheck(validation.token, validation.inReplaySet, validation.at)

\* ---- C14 ------------------------------------------------------------------
\* C14: a minted token presented at the instant now = expiresAt is refused
\* with 'Token expired', and a token is accepted only when now < expiresAt.
C14_ExpiryInstant ==
  validation.token \in issued =>
    /\ validation.at = validation.token.expiresAt
         => verifyClient(validation.token, validation.result) = "Token expired"
    /\ validation.result.valid => validation.at < validation.token.expiresAt

\* ---- C15 ------------------------------------------------------------------
\* C15: a validly signed token is admitted only if its permissions claim is
\* present and contains VIEW; with any other claim, when the earlier checks
\* pass, the refusal is 'No VIEW permission'.
C15_ViewClaimRequired ==
  validation.token \in PresentableSigned =>
    /\ verifyClient(validation.token, validation.result) = ""
         => /\ validation.token.hasPermissions
            /\ "VIEW" \in validation.token.permissions
    /\ (validation.result.valid
          /\ ~(validation.token.hasPermissions
                 /\ "VIEW" \in validation.token.permissions))
         => verifyClient(validation.token, validation.result)
              = "No VIEW permission"

\* ---- C16 ------------------------------------------------------------------
\* No value the registries hand out has an rtspUrl field: what registerCamera
\* returns for any configuration, getCamera, getAllCameras, and the
\* gateway's camera list.
ResponsesOmitRtspUrl ==
  /\ \A config \in CameraConfigs :
       ControlRegisterCameraThrows(cameras, config) = ""
         => "rtspUrl" \notin DOMAIN ControlRegisterCameraReturn(config, now)
  /\ \A c \in CameraIdInputs :
       getCamera(cameras, c) # null
         => "rtspUrl" \notin DOMAIN getCamera(cameras, c)
  /\ \A enabledOnly \in BOOLEAN :
       \A x \in getAllCameras(cameras, enabledOnly) : "rtspUrl" \notin DOMAIN x
  /\ \A x \in listCameras(cameraRegistry) : "rtspUrl" \notin DOMAIN x

\* The URL startStream writes to the log differs from the stored rtspUrl.
LogMasked ==
  log' # log => log'.rtspUrl # cameraRegistry[log'.cameraId].rtspUrl

\* C16: the rtspUrl of a camera appears in no response and in no log line,
\* for URLs with and without credentials.
C16_RtspUrlNeverExposed == []ResponsesOmitRtspUrl /\ [][LogMasked]_vars

\* ---- C17 ------------------------------------------------------------------
\* C17: POST /stream-token produces a token only for a requester with role
\* MONITOR and a camera that is in the registry and enabled at the time of
\* the request: for every registry state and every request, and for the
\* last request served; a token the endpoint returned was issued.
C17_TokenOnlyForMonitorAndEnabledCamera ==
  /\ \A role \in Roles, c \in CameraIdInputs :
       postStreamToken(cameras, role, c, now).token # NoToken
         => /\ role = MONITOR
            /\ c \in DOMAIN cameras
            /\ cameras[c].enabled
  /\ request.response.token # NoToken
       => /\ request.role = MONITOR
          /\ request.response.token \in issued
          /\ request.response.token.cameraId = request.cameraId
  /\ issued # {} => request.response.status # 0

\* A token was issued, and the last request, of a monitor for a camera that
\* is registered and disabled, was refused.
C17_DisabledCameraRefused ==
  /\ issued # {}
  /\ request.role = MONITOR
  /\ request.cameraId \in DOMAIN cameras
  /\ ~cameras[request.cameraId].enabled
  /\ request.response = Response(403, "Camera is disabled", NoToken)

\* ---- C18 ------------------------------------------------------------------
\* The sessions of S that handle h owns.
OwnedBy(S, h) == {k \in DOMAIN S : S[k].monitorSocketId = h}

\* C18: endSessionByMonitorSocket(h) removes every session whose
\* monitorSocketId is h, returns exactly those sessions, marked ended, and
\* leaves every session of another handle as it was.
EndByMonitorSocketFrame ==
  call'.op = "endSessionByMonitorSocket" =>
    LET h == call'.from IN
    /\ OwnedBy(sessions', h) = {}
    /\ DOMAIN sessions' = DOMAIN sessions \ OwnedBy(sessions, h)
    /\ \A k \in DOMAIN sessions' : sessions'[k] = sessions[k]
    /\ endSessionByMonitorSocketReturn(sessions, h) =
         {[sessions[k] EXCEPT !.status = "ended"] : k \in OwnedBy(sessions, h)}
    /\ call'.result = "ended" <=> OwnedBy(sessions, h) # {}

C18_EndByMonitorSocketFrame == [][EndByMonitorSocketFrame]_vars

\* A disconnect ended the sessions of one handle and a session of another
\* handle remains.
C18_OthersRemain ==
  /\ call.op = "endSessionByMonitorSocket"
  /\ call.result = "ended"
  /\ \E k \in DOMAIN sessions : sessions[k].monitorSocketId # call.from

\* ---- C19 ------------------------------------------------------------------
\* C19: once the disconnect of a monitor's handle is processed no session
\* with that handle remains, and the same monitorId on any new handle can
\* create a session for every kiosk the old handle was watching.
ReconnectHasNoResidue ==
  call'.op = "endSessionByMonitorSocket" =>
    LET h == call'.from IN
    /\ \A k \in DOMAIN sessions' : sessions'[k].monitorSocketId # h
    /\ \A k \in OwnedBy(sessions, h), h2 \in SocketInputs \ {"", h} :
         /\ createSessionThrows(sessions', k, sessions[k].monitorId, h2) = ""
         /\ createSession(sessions', k, sessions[k].monitorId, h2, now)[k]
              .monitorSocketId = h2

C19_ReconnectHasNoResidue == [][ReconnectHasNoResidue]_vars

\* The disconnect of sockM1 ended sessions, and MONITOR_01 can create a
\* session for every kiosk on its new handle sockM3.
C19_Reconnectable ==
  /\ call.op = "endSessionByMonitorSocket"
  /\ call.result = "ended"
  /\ call.from = "sockM1"
  /\ OwnedBy(sessions, "sockM1") = {}
  /\ \A k \in Kiosks :
       createSessionThrows(sessions, k, "MONITOR_01", "sockM3") = ""

\* ---- C20 ------------------------------------------------------------------
\* C20: start-monitoring of a monitor for a present kiosk fails with
\* SESSION_CONFLICT exactly when the kiosk has a session of another owner;
\* then the sessions are unchanged.  With no session or the sender's own
\* session it succeeds and the sender owns the session of the kiosk.
StartMonitoringConflict ==
  (/\ call'.op = "start-monitoring"
   /\ call'.from \in MonitorHandles
   /\ call'.kioskId \in DOMAIN kiosks)
    => LET k == call'.kioskId
           h == call'.from
           conflict == k \in DOMAIN sessions /\ sessions[k].monitorSocketId # h
       IN /\ call'.result = "SESSION_CONFLICT" <=> conflict
          /\ conflict => sessions' = sessions
          /\ ~conflict => /\ call'.result = "ok"
                          /\ k \in DOMAIN sessions'
                          /\ sessions'[k].monitorSocketId = h
                          /\ k \in DOMAIN sessions => sessions' = sessions

TimeoutInputs == 1..(SESSION_TIMEOUT_MS + 1)

Reported(timeoutMs) ==
  {s.kioskId : s \in getTimedOutSessions(sessions, timeoutMs, now)}

\* The result holds no session whose last activity is within the timeout
\* (equality included) and every active session beyond it.
TimedOutExactly ==
  \A timeoutMs \in TimeoutInputs :
    /\ \A k \in Reported(timeoutMs) :
         /\ k \in DOMAIN sessions
         /\ sessions[k].status = "active"
         /\ ~(now <= sessions[k].lastActivityAt + timeoutMs)
    /\ \A k \in DOMAIN sessions :
         (sessions[k].status = "active"
          /\ now >= sessions[k].lastActivityAt + timeoutMs + 1)
           => k \in Reported(timeoutMs)
    /\ Cardinality(getTimedOutSessions(sessions, timeoutMs, now))
         = Cardinality(Reported(timeoutMs))

\* A successful updateSessionActivity takes the session out of the next
\* result (the clock stands still in every step of a store function).
TouchedNotReported ==
  (now' = now /\ call'.op = "updateSessionActivity" /\ call'.result = "true")
    => \A timeoutMs \in TimeoutInputs :
         call'.kioskId \notin
           {s.kioskId : s \in getTimedOutSessions(sessions', timeoutMs, now')}

\* C21: getTimedOutSessions reports exactly the active sessions with
\* now - lastActivityAt > timeout: none within the timeout (equality
\* included), every one beyond it, and a session on which
\* updateSessionActivity succeeded is not in the next result.
C21_TimedOutExactly == []TimedOutExactly /\ [][TouchedNotReported]_vars

\* Two sessions, one idle for exactly SESSION_TIMEOUT_MS (not reported) and
\* one beyond it (reported), the latter right before it is touched.
C21_OneBeyondOneAtTimeout ==
  /\ DOMAIN sessions = Kiosks
  /\ now - sessions["KIOSK_01"].lastActivityAt = SESSION_TIMEOUT_MS
  /\ now - sessions["KIOSK_02"].lastActivityAt > SESSION_TIMEOUT_MS
  /\ Reported(SESSION_TIMEOUT_MS) = {"KIOSK_02"}
  /\ call.op = "updateSessionActivity"
  /\ call.result = "true"
  /\ call.kioskId = "KIOSK_01"

\* ------------------------------------------------------------------ C22 ---
\* The participants of the session of kioskId: the connections whose
\* commands on it pass the sender checks.
Participants(S, kioskId) ==
  {c \in conns : ValidateSender(S, c, kioskId) = ""}

SessionSurvivesCallEnd ==
  (call'.result = "ok" /\ call'.op \in {"call-end", "call-reject"})
    => /\ call'.kioskId \in DOMAIN sessions
       /\ sessions[call'.kioskId].callState \in
            (IF call'.op = "call-end" THEN {"connecting", "connected"}
             ELSE {"connecting"})
       /\ call'.kioskId \in DOMAIN sessions'
       /\ LET session == sessions'[call'.kioskId] IN
          /\ session.status = "active"
          /\ session.callState = "idle"
          /\ session.callInitiatedBy = ""
          /\ session.callStartedAt = NoTime
          /\ session.monitorSocketId = sessions[call'.kioskId].monitorSocketId
       /\ Participants(sessions', call'.kioskId) # {}
       /\ \A c \in Participants(sessions', call'.kioskId) :
            CommandError(sessions', c, call'.kioskId, "call-request") = ""

\* C22: an accepted call-end (from CONNECTING or CONNECTED) or call-reject
\* (from CONNECTING) leaves the session in the store, active, with callState
\* idle and callInitiatedBy and callStartedAt cleared, and a call-request of
\* either participant is accepted on it.
C22_SessionSurvivesCallEnd == [][SessionSurvivesCallEnd]_vars

\* The kiosk has ended a call, and both the kiosk and the owning monitor are
\* connected and may request the next one.
C22_CallEndedByKiosk ==
  /\ call.op = "call-end"
  /\ call.result = "ok"
  /\ call.from = "sockK1"
  /\ call.kioskId \in DOMAIN sessions
  /\ sessions[call.kioskId].callState = "idle"
  /\ {c.role : c \in Participants(sessions, call.kioskId)} = {"KIOSK", "MONITOR"}

\* ------------------------------------------------------------------ C23 ---
\* The mediaState field of a side that a toggle command addresses.
MediaField(session, side, cmd) ==
  IF cmd = "toggle-video" THEN session.mediaState[side].videoEnabled
  ELSE session.mediaState[side].audioEnabled

\* The notifications in emits that go to the peer.
PeerNotifications(emits, peer, cmd) ==
  {i \in DOMAIN emits :
     /\ emits[i].to = peer
     /\ emits[i].event = (IF cmd = "toggle-video" THEN "video-toggled"
                          ELSE "audio-toggled")}

\* An admitted toggle happens in CONNECTED, stores the value in the field of
\* the sender's role and emits one notification to the peer.
ToggleApplied ==
  (call'.op \in MediaCommands /\ call'.result = "ok")
    => /\ sessions[call'.kioskId].callState = "connected"
       /\ \E c \in conns, enabled \in BOOLEAN :
            /\ c.handle = call'.from
            /\ MediaField(sessions'[call'.kioskId], Side(c), call'.op) = enabled
            /\ PeerHandle(sessions, c, call'.kioskId) # ""
            /\ Cardinality(PeerNotifications(call'.emits,
                             PeerHandle(sessions, c, call'.kioskId),
                             call'.op)) = 1
            /\ \A i \in DOMAIN call'.emits : call'.emits[i].enabled = enabled

\* Right after an admitted toggle, the same toggle is admitted again, leaves
\* the session as it is and emits one notification to the peer again.
ToggleRepeated ==
  (call.op \in MediaCommands /\ call.result = "ok")
    => \A c \in conns :
         c.handle = call.from =>
           LET enabled == MediaField(sessions[call.kioskId], Side(c), call.op)
           IN /\ CommandError(sessions, c, call.kioskId, call.op) = ""
              /\ MediaEffect(sessions, call.kioskId, call.op, Side(c), enabled)
                   = sessions
              /\ Cardinality(PeerNotifications(
                   MediaEmits(sessions, c, call.kioskId, call.op, enabled),
                   PeerHandle(sessions, c, call.kioskId), call.op)) = 1

\* C23: media toggles are idempotent: the same toggle-video or toggle-audio
\* value applied twice for one role while CONNECTED leaves that role's
\* mediaState field equal to the value after one application, and each
\* application emits one peer notification.
C23_TogglesIdempotent == []ToggleRepeated /\ [][ToggleApplied]_vars

\* The monitor has switched its video on during a call and the kiosk was
\* notified; a repetition of the command starts and ends in this state.
C23_VideoToggledTwice ==
  /\ call.op = "toggle-video"
  /\ call.result = "ok"
  /\ call.from = "sockM1"
  /\ Len(call.emits) = 2
  /\ call.emits[2].to = "sockK1"
  /\ call.emits[2].enabled
  /\ sessions[call.kioskId].mediaState.monitor.videoEnabled
  /\ sessions[call.kioskId].mediaState.monitor.audioEnabled

\* ------------------------------------------------------------------ C24 ---
\* The cases in which registerCamera is to reject a config.
RegistrationRejected(C, config) ==
  \/ config.cameraId = ""
  \/ config.rtspUrl = NoUrl
  \/ config.rtspUrl.protocol # "rtsp:"
  \/ config.cameraId \in DOMAIN C

\* C24: registerCamera of the control-plane registry throws for a missing
\* cameraId or rtspUrl, an rtspUrl not starting with rtsp:// and a cameraId
\* that is registered already, and then leaves the registry (the existing
\* camera's rtspUrl, enabled flag and status included) as it is; otherwise it
\* stores the camera with status OFFLINE and enabled true unless the config
\* says enabled: false.
C24_RegisterCameraRejects ==
  \A config \in CameraConfigs :
    LET after == ControlRegisterCamera(cameras, config, now) IN
    IF RegistrationRejected(cameras, config)
    THEN /\ ControlRegisterCameraThrows(cameras, config) # ""
         /\ DOMAIN after = DOMAIN cameras
         /\ \A c \in DOMAIN cameras :
              /\ after[c].rtspUrl = cameras[c].rtspUrl
              /\ after[c].enabled = cameras[c].enabled
              /\ after[c].status = cameras[c].status
              /\ after[c] = cameras[c]
    ELSE /\ ControlRegisterCameraThrows(cameras, config) = ""
         /\ DOMAIN after = DOMAIN cameras \cup {config.cameraId}
         /\ \A c \in DOMAIN cameras : after[c] = cameras[c]
         /\ after[config.cameraId].rtspUrl = config.rtspUrl
         /\ after[config.cameraId].status = "OFFLINE"
         /\ after[config.cameraId].enabled
              = ~("enabled" \in DOMAIN config /\ config.enabled = FALSE)
         /\ ("enabled" \notin DOMAIN config) => after[config.cameraId].enabled

\* CCTV_01 is registered, disabled and ONLINE, so a second registration of
\* it (with another rtspUrl) is a rejection that must not reset it, and
\* CCTV_02 is free, so its registration succeeds.
C24_RegisteredDisabledOnline ==
  /\ DOMAIN cameras = {"CCTV_01"}
  /\ ~cameras["CCTV_01"].enabled
  /\ cameras["CCTV_01"].status = "ONLINE"
  /\ \E config \in CameraConfigs :
       /\ config.cameraId = "CCTV_01"
       /\ config.rtspUrl # cameras["CCTV_01"].rtspUrl
       /\ config.rtspUrl.protocol = "rtsp:"
       /\ ControlRegisterCameraThrows(cameras, config)
            = "Camera already registered"

\* ------------------------------------------------------------------ C25 ---
\* How often cameraId occurs in a listing.
Occurrences(listing, cameraId) ==
  Cardinality({i \in DOMAIN listing : listing[i].cameraId = cameraId})

\* C25: register, list, deregister is a round trip: for a cameraId that is
\* not in the registry, registerCamera followed by removeCamera of it gives
\* the registry as it was before, and the listing taken in between holds the
\* new camera exactly once (and every other camera as before).
C25_RegisterRemoveRoundTrip ==
  \A config \in CameraConfigs :
    (config.cameraId # "" /\ config.cameraId \notin DOMAIN cameras) =>
      LET registered == ControlRegisterCamera(cameras, config, now)
          listing == getAllCamerasArray(registered, FALSE)
      IN /\ removeCamera(registered, config.cameraId) = cameras
         /\ Occurrences(getAllCamerasArray(cameras, FALSE), config.cameraId) = 0
         /\ ControlRegisterCameraThrows(cameras, config) = "" =>
              /\ Occurrences(listing, config.cameraId) = 1
              /\ Len(listing) = Cardinality(DOMAIN cameras) + 1
              /\ \A c \in DOMAIN cameras :
                   /\ Occurrences(listing, c) = 1
                   /\ getCamera(registered, c) = getCamera(cameras, c)

\* The registry holds CCTV_02 (ONLINE), so the round trip of CCTV_01 happens
\* in a registry that is not empty and the listing in between has two
\* elements.
C25_RoundTripBesideAnother ==
  /\ DOMAIN cameras = {"CCTV_02"}
  /\ cameras["CCTV_02"].status = "ONLINE"
  /\ \E config \in CameraConfigs :
       /\ config.cameraId = "CCTV_01"
       /\ ControlRegisterCameraThrows(cameras, config) = ""
       /\ Len(getAllCamerasArray(ControlRegisterCamera(cameras, config, now),
                                 FALSE)) = 2

\* ------------------------------------------------------------------ C26 ---
\* Status arguments a caller may pass: the three statuses, a status of the
\* gateway's workers, a differently spelled one and a missing one.
StatusArguments == {"ONLINE", "OFFLINE", "ERROR", "RUNNING", "online", ""}

StatusRefused(C, cameraId, status) ==
  \/ status \notin {"ONLINE", "OFFLINE", "ERROR"}
  \/ cameraId \notin DOMAIN C

\* C26: the status of every camera of the control-plane registry is ONLINE,
\* OFFLINE or ERROR; updateCameraStatus with another status or for an unknown
\* camera returns false and changes no camera's status or lastStatusUpdate
\* (and with a valid status for a known camera it returns true and sets
\* both).
C26_StatusAlwaysValid ==
  /\ \A c \in DOMAIN cameras : cameras[c].status \in {"ONLINE", "OFFLINE", "ERROR"}
  /\ \A cameraId \in CameraIdInputs, status \in StatusArguments,
        t \in {now, now + 1} :
       LET after == updateCameraStatus(cameras, cameraId, status, t) IN
       IF StatusRefused(cameras, cameraId, status)
       THEN /\ ~updateCameraStatusReturn(cameras, cameraId, status)
            /\ DOMAIN after = DOMAIN cameras
            /\ \A c \in DOMAIN cameras :
                 /\ after[c].status = cameras[c].status
                 /\ after[c].lastStatusUpdate = cameras[c].lastStatusUpdate
       ELSE /\ updateCameraStatusReturn(cameras, cameraId, status)
            /\ after[cameraId].status = status
            /\ after[cameraId].lastStatusUpdate = t
            /\ \A c \in DOMAIN cameras \ {cameraId} : after[c] = cameras[c]

\* CCTV_01 has been reported ONLINE and CCTV_02 is unknown: a report with an
\* invalid status for the first and any report for the second are refused.
C26_OnlineAndUnknown ==
  /\ DOMAIN cameras = {"CCTV_01"}
  /\ cameras["CCTV_01"].status = "ONLINE"
  /\ cameras["CCTV_01"].enabled
  /\ ~updateCameraStatusReturn(cameras, "CCTV_01", "RUNNING")
  /\ ~updateCameraStatusReturn(cameras, "CCTV_02", "ONLINE")

\* ------------------------------------------------------------------ C27 ---
\* The secret a request provides: the header, or body.secret when the header
\* carries none.
ProvidedSecret(header, body) == IF header = "" THEN body.secret ELSE header

\* The last report of the batch for cameraId that updateCameraStatus accepts,
\* 0 when there is none.
LastAccepted(C, batch, cameraId) ==
  LET accepted == {i \in DOMAIN batch :
                     /\ batch[i].cameraId = cameraId
                     /\ batch[i].status \in {"ONLINE", "OFFLINE", "ERROR"}}
  IN IF accepted = {} THEN 0
     ELSE CHOOSE i \in accepted : \A j \in accepted : j <= i

\* The batch has been processed: each camera has the status of its last
\* accepted report, or its old status when there is none.
Processed(C, after, batch) ==
  /\ DOMAIN after = DOMAIN C
  /\ \A c \in DOMAIN C :
       after[c].status = (IF LastAccepted(C, batch, c) = 0 THEN C[c].status
                          ELSE batch[LastAccepted(C, batch, c)].status)

\* C27: when GATEWAY_SECRET is set, a health-callback batch whose provided
\* secret differs from it is answered with 401 and changes no camera status
\* (and one with the secret is processed); when GATEWAY_SECRET is unset,
\* every batch is processed, whatever secret it carries.
C27_HealthCallbackGated ==
  \A header \in Secrets, body \in Bodies :
    LET response == healthCallbackResponse(cameras, GATEWAY_SECRET, header, body)
        after == healthCallback(cameras, GATEWAY_SECRET, header, body, now + 1)
    IN IF GATEWAY_SECRET # "" /\ ProvidedSecret(header, body) # GATEWAY_SECRET
       THEN /\ response.status = 401
            /\ ~response.success
            /\ after = cameras
       ELSE "cameras" \in DOMAIN body =>
              /\ response.status = 200
              /\ response.total = Len(body.cameras)
              /\ response.updated + response.errors = response.total
              /\ Processed(cameras, after, body.cameras)

\* A control plane with a secret has processed a report (CCTV_01 is ONLINE);
\* a batch with a wrong secret that would set it back is refused.
C27_SecretSetAndReported ==
  /\ GATEWAY_SECRET = "s3cret"
  /\ "CCTV_01" \in DOMAIN cameras
  /\ cameras["CCTV_01"].status = "ONLINE"
  /\ healthCallbackResponse(cameras, GATEWAY_SECRET, "guess",
                            Body("s3cret", <<Report("CCTV_01", "ONLINE")>>)).status
       = 401

\* ------------------------------------------------------------------ C28 ---
\* A step in which a connection handler admitted a viewer for cameraId.
Admitted(cameraId) ==
  /\ ViewerCount(viewers') = ViewerCount(viewers) + 1
  /\ connection'.cameraId = cameraId
  /\ connection'.result = ""

\* The step put a new worker into the table for cameraId.
StartedWorker(cameraId) ==
  /\ cameraId \in DOMAIN activeStreams'
  /\ cameraId \in DOMAIN activeStreams =>
       \/ activeStreams'[cameraId] # activeStreams[cameraId]
       \/ activeStreams[cameraId] \notin DOMAIN streams

AdmissionStartsOrReuses ==
  \A c \in RegisteredCameras :
    Admitted(c) =>
      /\ StartedWorker(c) <=>
           \/ c \notin DOMAIN activeStreams
           \/ streams[activeStreams[c]].status \in {"ERROR", "STOPPED"}
      /\ (c \in DOMAIN activeStreams
          /\ streams[activeStreams[c]].status = "RUNNING")
           => /\ activeStreams'[c] = activeStreams[c]
              /\ streams'[activeStreams[c]].ffmpegProcess
                   = streams[activeStreams[c]].ffmpegProcess
              /\ streams'[activeStreams[c]].viewerCount
                   = streams[activeStreams[c]].viewerCount + 1
      /\ c \in DOMAIN activeStreams'
      /\ streams'[activeStreams'[c]].viewerCount >= 1

\* C28: an admission starts a worker if the table has none for the camera
\* or the one it has is ERROR or STOPPED, and reuses the worker of the table
\* otherwise; an admission that finds a RUNNING worker spawns no process; and
\* after a successful admission the viewer is counted on the worker that is
\* in the table.
C28_AdmissionStartsOrReuses == [][AdmissionStartsOrReuses]_vars

\* ------------------------------------------------------------------ C29 ---
\* The status changes of a worker the lifecycle names; the restart from
\* ERROR replaces the worker in the table by a new one.
LifecycleEdges ==
  {<<"STARTING", "RUNNING">>, <<"RUNNING", "STOPPING">>,
   <<"STOPPING", "STOPPED">>, <<"RUNNING", "ERROR">>}

\* The step replaces the worker o of the table by a new worker.
RestartedFrom(o) ==
  LET c == streams[o].cameraId IN
  /\ c \in DOMAIN activeStreams
  /\ activeStreams[c] = o
  /\ c \in DOMAIN activeStreams'
  /\ activeStreams'[c] # o

StatusAlongLifecycle ==
  /\ \A o \in DOMAIN streams \cap DOMAIN streams' :
       streams'[o].status # streams[o].status =>
         \/ <<streams[o].status, streams'[o].status>> \in LifecycleEdges
         \/ streams[o].status = "ERROR" /\ RestartedFrom(o)
  /\ \A o \in DOMAIN streams' \ DOMAIN streams :
       streams'[o].status = "STARTING"

\* C29: the status of a worker changes only from STARTING to RUNNING (on
\* its first output), from RUNNING to STOPPING to STOPPED, from RUNNING to
\* ERROR, and from ERROR by a restart; a worker starts as STARTING.
C29_StatusAlongLifecycle == [][StatusAlongLifecycle]_vars

\* ------------------------------------------------------------------ C30 ---
\* The child of StreamInfo o exits in the step (an object that nothing can
\* reach any more after its exit is dropped from streams).
Exited(o) ==
  /\ o \in DOMAIN streams
  /\ streams[o].ffmpegProcess = "alive"
  /\ o \in DOMAIN streams' => streams'[o].ffmpegProcess = "exited"

ExitClassified ==
  \A o \in StreamIds :
    Exited(o) =>
      LET c == streams[o].cameraId
          own == c \in DOMAIN activeStreams /\ activeStreams[c] = o
      IN /\ IF streams[o].status = "STOPPING"
            THEN /\ o \in DOMAIN streams' =>
                      /\ streams'[o].status = "STOPPED"
                      /\ ~streams'[o].restartTimer
                 /\ own => c \notin DOMAIN activeStreams'
            ELSE /\ o \in DOMAIN streams'
                 /\ streams'[o].status = "ERROR"
                 /\ streamHealth'[c].status = "ERROR"
                 /\ streams'[o].restartTimer
                      \/ streams[o].restartCount >= MAX_RESTARTS
         /\ (c \in DOMAIN activeStreams /\ ~own) =>
              /\ c \in DOMAIN activeStreams'
              /\ activeStreams'[c] = activeStreams[c]
              /\ streams'[activeStreams[c]] = streams[activeStreams[c]]

\* C30: a child exit is classified by the worker's status at that moment:
\* if it is STOPPING the worker becomes STOPPED, its own entry leaves the
\* table and no restart is scheduled; otherwise the worker and the health
\* become ERROR and a restart is scheduled (up to MAX_RESTARTS); and the exit
\* of a child never removes or alters the table entry of another, newer
\* worker of the camera.
C30_ExitClassified == [][ExitClassified]_vars

\* ------------------------------------------------------------------ C31 ---
\* A restart of the worker o of the primary manager is pending.
RestartScheduled(cameraId) ==
  /\ cameraId \in DOMAIN activeStreams
  /\ streams[activeStreams[cameraId]].restartTimer

\* An hlsInfo has no timer that would restart it.
HlsRestartScheduled(cameraId) == FALSE

\* C31: the HLS worker has the lifecycle of the primary worker: after the
\* same start, stop and child-exit events both tables hold a worker for the
\* camera or neither does, the two workers have the same status, and a
\* restart is scheduled for the one exactly when it is for the other.
C31_HlsSameLifecycle ==
  \A c \in RegisteredCameras :
    /\ (c \in DOMAIN activeStreams) <=> (c \in DOMAIN hlsStreams)
    /\ c \in DOMAIN activeStreams =>
         /\ streams[activeStreams[c]].status = hlsInfos[hlsStreams[c]].status
         /\ RestartScheduled(c) <=> HlsRestartScheduled(c)

\* ------------------------------------------------------------------ C32 ---
\* The entries of activeSessions for the camera whose socket is open.
OpenSessions(cameraId) ==
  [v \in {x \in DOMAIN sessionsToClose(cameraId) : x.ws = "open"} |->
     viewers[v]]

\* C32: the viewerCount of the worker that the table holds for a camera is
\* the number of open viewer sessions (entries of activeSessions) for that
\* camera.
C32_ViewerCountIsSessionCount ==
  \A c \in DOMAIN activeStreams :
    streams[activeStreams[c]].viewerCount = BagCardinality(OpenSessions(c))

\* ------------------------------------------------------------------ C33 ---
\* C33: a camera whose stream health record is ONLINE has a worker in the
\* table, in status RUNNING.
C33_OnlineHasRunningWorker ==
  \A c \in DOMAIN streamHealth :
    streamHealth[c].status = "ONLINE" =>
      /\ c \in DOMAIN activeStreams
      /\ streams[activeStreams[c]].status = "RUNNING"

\* ------------------------------------------------------------------ C34 ---
\* The entries a step removes from the replay set have a deadline in the past.
SweptOnlyExpired ==
  \A x \in DOMAIN usedTokens \ DOMAIN usedTokens' : usedTokens[x] < now

\* A token that was accepted and is no longer in the replay set is refused
\* as expired.
SweptIsExpired ==
  (validation.seenValid /\ ~validation.inReplaySet) =>
    /\ ~validation.result.valid
    /\ validation.result.error = "Token expired"

NeverAcceptedTwice == \A x \in DOMAIN admissions : admissions[x] <= 1

\* C34: the sweep removes an entry of the replay set only when its expiry is
\* in the past, a swept token is refused as expired when it is presented
\* again, and under every interleaving of validations and sweeps no token
\* value is accepted twice.
C34_SweepKeepsReplayProtection ==
  /\ [](SweptIsExpired /\ NeverAcceptedTwice)
  /\ [][SweptOnlyExpired]_vars

\* An accepted token was swept after its expiry and presented again.
C34_SweptTokenPresented ==
  /\ validation.token \in DOMAIN admissions
  /\ validation.token \notin DOMAIN usedTokens
  /\ validation.token.expiresAt < validation.at
  /\ ~validation.result.valid

\* ------------------------------------------------------------------ C35 ---
\* The viewer endpoint was presented a token that POST /validate-token had
\* reported valid.
CheckedTokenPresented ==
  /\ validation.via = "webrtc"
  /\ validation.token \in checked

\* C35 (as stated): a viewer connection that presents a token for which
\* POST /validate-token reported valid is rejected with 'Token already used'.
C35_CheckedRejectedAsUsed ==
  CheckedTokenPresented =>
    verifyClient(validation.token, validation.result) = "Token already used"

\* C35 (amended): a viewer connection that presents a token for which
\* POST /validate-token reported valid is rejected, with 'Token already used'
\* while the token's entry is in the replay set and with 'Token expired' once
\* the sweep has removed it; the token admits no viewer.
C35_CheckedNeverAdmits ==
  CheckedTokenPresented =>
    /\ ~validation.result.valid
    /\ verifyClient(validation.token, validation.result) =
         IF validation.inReplaySet THEN "Token already used"
         ELSE "Token expired"

\* A token the endpoint reported valid was refused at the viewer endpoint
\* before its expiry.
C35_CheckedThenRefused ==
  /\ CheckedTokenPresented
  /\ validation.at < validation.token.expiresAt
  /\ verifyClient(validation.token, validation.result) = "Token already used"

\* ------------------------------------------------------------------ C36 ---
\* The entries a step adds to the replay set: the token of a validation that
\* returned valid, with its expiresAt as the deadline.
InsertedByValid ==
  \A x \in DOMAIN usedTokens' \ DOMAIN usedTokens :
    /\ validation'.token = x
    /\ validation'.result.valid
    /\ usedTokens'[x] = x.expiresAt

\* A validation that fails leaves the replay set as it was.
FailureKeepsReplaySet ==
  (validation' # validation /\ ~validation'.result.valid) =>
    usedTokens' = usedTokens

\* The errors of a failing validation.
ValidationErrors ==
  {"Token required", "Invalid token signature", "Token missing cameraId",
   "Token missing expiresAt", "Token expired", "Token already used"}

\* C36: a validation that fails (missing token, bad signature, missing
\* cameraId or expiresAt, expired, already used) leaves the replay set
\* unchanged; a token is inserted into the replay set only by a validation
\* that returns valid, with its expiresAt as the purge deadline.
C36_ReplaySetWrittenOnSuccessOnly ==
  /\ [](validation.result.valid \/ validation = NoValidation
          \/ validation.result.error \in ValidationErrors)
  /\ [][InsertedByValid /\ FailureKeepsReplaySet]_vars

\* A payload without expiresAt was refused while the replay set holds
\* another token.
C36_IncompleteRefused ==
  /\ validation.result.error = "Token missing expiresAt"
  /\ usedTokens # EmptyMap
  /\ validation.token \notin DOMAIN usedTokens

\* ------------------------------------------------------------------ C37 ---
\* stopStream was called on the camera's worker after its child had exited
\* unexpectedly (status ERROR, restart scheduled), and no worker has replaced
\* it since.
StoppedWhilePending(cameraId) ==
  /\ cameraId \in DOMAIN activeStreams
  /\ streams[activeStreams[cameraId]].status = "STOPPING"
  /\ streams[activeStreams[cameraId]].ffmpegProcess = "exited"
  /\ streams[activeStreams[cameraId]].restartCount > 0

\* The step puts a new worker into the table for the camera.
ChildStarted(cameraId) ==
  /\ cameraId \in DOMAIN activeStreams'
  /\ cameraId \in DOMAIN activeStreams =>
       activeStreams'[cameraId] # activeStreams[cameraId]

\* C37: after stopStream on a worker whose restart was pending, no timer
\* starts a child process for the camera: a worker is started for it only
\* by the next viewer admission.
C37_StopCancelsRestart ==
  [][\A c \in RegisteredCameras :
       (StoppedWhilePending(c) /\ viewers' = viewers) => ~ChildStarted(c)]_vars

\* ------------------------------------------------------------------ C38 ---
\* The step handles a connection that startStream rejected.
StartRejected ==
  /\ connection'.result = "Failed to start camera stream"
  /\ BagCardinality(viewers') > BagCardinality(viewers)

\* The step is the 'close' of socket v, which was never admitted.
UnadmittedClosed(v) ==
  /\ ~v.admitted
  /\ CopiesIn(v, viewers') < CopiesIn(v, viewers)

\* The workers of the table keep their viewerCount in the step.
ViewerCountsKept ==
  \A c \in DOMAIN activeStreams :
    /\ c \in DOMAIN activeStreams'
    /\ activeStreams'[c] = activeStreams[c]
    /\ streams'[activeStreams[c]].viewerCount =
         streams[activeStreams[c]].viewerCount

RejectedStartKeepsState ==
  StartRejected =>
    /\ activeStreams' = activeStreams
    /\ streams' = streams
    /\ streamHealth' = streamHealth
    /\ usedTokens' = usedTokens

UnadmittedCloseKeepsCounts ==
  \A v \in DOMAIN viewers :
    UnadmittedClosed(v) => (ViewerCountsKept /\ usedTokens' = usedTokens)

\* C38: a connection for a camera that startStream rejects (not registered,
\* or disabled) leaves the worker table and the health map unchanged, and
\* the connection is closed without its token being restored and without
\* a change of any worker's viewerCount.
C38_RejectedStartChangesNothing ==
  [][RejectedStartKeepsState /\ UnadmittedCloseKeepsCounts]_vars

\* ------------------------------------------------------------------ C39 ---
\* The report can be applied: its camera is registered and its status is one
\* of the three.
Applicable(C, report) ==
  /\ report.cameraId \in DOMAIN C
  /\ report.status \in {"ONLINE", "OFFLINE", "ERROR"}

\* Every report of the batch that can be applied and is followed by no other
\* such report for its camera has set the camera's status, also when a
\* report that cannot be applied precedes it.
LaterReportsApplied(C, after, batch) ==
  \A j \in DOMAIN batch :
    (/\ Applicable(C, batch[j])
     /\ \A k \in DOMAIN batch :
          (k > j /\ Applicable(C, batch[k]))
            => batch[k].cameraId # batch[j].cameraId)
      => after[batch[j].cameraId].status = batch[j].status

=============================================================================
